---- MODULE Spec2Model ----
(***************************************************************************)
(* ctlearn/image_mapping.py: ImageMapper.                                  *)
(*                                                                         *)
(* The constructor builds, camera type by camera type, one mapping table   *)
(* and one final image shape; map_image applies a stored table to a pixel  *)
(* array.  The tables of the real camera types have 10^7 entries, so a     *)
(* table is carried here by its dimensions and by the values its weights   *)
(* are computed from (generate_table is deterministic in them).            *)
(***************************************************************************)
EXTENDS Integers, Sequences, FiniteSets, Bags, TLC

VARIABLES
    args,                       \* the arguments of __init__
    pc,                         \* position of the constructor
    err,                        \* the exception that ended the constructor ("" if none)
    idx,                        \* position of "for camtype in self.camera_types"
    camera_types,               \* self.camera_types
    hex_conversion_algorithm,   \* self.hex_conversion_algorithm
    interpolation_image_shape,  \* self.interpolation_image_shape
    padding,                    \* self.padding
    mask,                       \* self.mask
    image_shapes,               \* self.image_shapes
    default_pad,                \* self.default_pad (0: the attribute does not exist yet)
    pixel_positions,            \* self.pixel_positions
    pixel_rotation,             \* self.pixel_rotation
    mapping_tables,             \* self.mapping_tables
    calls,                      \* the bag of map_image calls made, each with its locals
    gt                          \* the locals of a call of generate_table followed weight by weight

fields == <<camera_types, hex_conversion_algorithm, interpolation_image_shape,
            padding, mask, image_shapes, default_pad, pixel_positions,
            pixel_rotation, mapping_tables>>

vars == <<args, pc, err, idx, fields, calls, gt>>

----------------------------------------------------------------------------
(* Bounds of the model *)

\* longest camera_types list given to the constructor
MaxCams == 2
\* largest external padding requested for a camera type
MaxPad == 1
\* largest difference 2*len(first_ticks) - len(second_ticks) of a hex geometry
MaxTickDiff == 1
\* side of the interpolation image shape requested in interpolation_image_shape
ReqSize == 6
\* number of concurrent callers of map_image
NumThreads == 2

----------------------------------------------------------------------------
(* Helpers *)

Min(a, b) == IF a < b THEN a ELSE b

Max(a, b) == IF a > b THEN a ELSE b

EmptyDict == <<>>

\* gt when no call of generate_table is followed
NoFrame == [pc |-> "none"]

\* {**d, **e}: the entries of e override those of d
Merge(d, e) == e @@ d

\* d with d[k] = v
Put(d, k, v) == (k :> v) @@ d

Range(s) == {s[i] : i \in DOMAIN s}

\* the dictionaries a caller may pass: some keys of S, values in V
PartialFns(S, V) == UNION {[D -> V] : D \in SUBSET S}

\* the lists of at most n distinct elements of S
DistinctSeqs(S, n) ==
    {s \in UNION {[1..k -> S] : k \in 0..n} :
        \A i, j \in DOMAIN s : i # j => s[i] # s[j]}

RECURSIVE GCD(_, _)
GCD(a, b) == IF b = 0 THEN a ELSE GCD(b, a % b)

Abs(a) == IF a < 0 THEN -a ELSE a

\* the fraction n/d in lowest terms with a positive denominator: weights
\* are exact fractions <<numerator, denominator>>.  As in floating point,
\* x/0 is <<1, 0>> or <<-1, 0>> (inf, -inf) and 0/0 is <<0, 0>> (nan).
Rat(n, d) ==
    IF n = 0 /\ d = 0 THEN <<0, 0>>
    ELSE LET g == GCD(Abs(n), Abs(d))
             sgn == IF d < 0 THEN -1 ELSE 1
         IN  <<sgn * (n \div g), sgn * (d \div g)>>

Zero == <<0, 1>>

One == <<1, 1>>

\* the greatest common divisor of a and b, 1 where both are 0: common
\* factors are divided out before a product is taken
Common(a, b) ==
    LET g == GCD(Abs(a), Abs(b)) IN IF g = 0 THEN 1 ELSE g

RAdd(a, b) ==
    LET g == Common(a[2], b[2])
    IN  Rat(a[1] * (b[2] \div g) + b[1] * (a[2] \div g),
            (a[2] \div g) * b[2])

RSub(a, b) == RAdd(a, <<-b[1], b[2]>>)

RMul(a, b) ==
    LET g == Common(a[1], b[2])
        h == Common(b[1], a[2])
    IN  Rat((a[1] \div g) * (b[1] \div h), (a[2] \div h) * (b[2] \div g))

\* a / b
RDiv(a, b) == RMul(a, <<b[2], b[1]>>)

RLess(a, b) ==
    LET g == Common(a[2], b[2])
    IN  a[1] * (b[2] \div g) < b[1] * (a[2] \div g)

RECURSIVE RSum(_, _, _)
\* f[lo] + ... + f[hi]
RSum(f, lo, hi) ==
    IF lo > hi THEN Zero
    ELSE IF lo = hi THEN f[lo]
    ELSE LET mid == (lo + hi) \div 2
         IN  RAdd(RSum(f, lo, mid), RSum(f, mid + 1, hi))

----------------------------------------------------------------------------
(* Class and instance dictionaries *)

num_pixels ==
    ("LSTCam" :> 1855) @@ ("FlashCam" :> 1764) @@ ("NectarCam" :> 1855) @@
    ("SCTCam" :> 11328) @@ ("DigiCam" :> 1296) @@ ("CHEC" :> 2048) @@
    ("ASTRICam" :> 2368) @@ ("VERITAS" :> 499) @@ ("MAGICCam" :> 1039) @@
    ("FACT" :> 1440) @@ ("HESS-I" :> 960) @@ ("HESS-II" :> 2048)

DefaultImageShapes ==
    ("LSTCam" :> <<110, 110, 1>>) @@ ("FlashCam" :> <<112, 112, 1>>) @@
    ("NectarCam" :> <<110, 110, 1>>) @@ ("SCTCam" :> <<120, 120, 1>>) @@
    ("DigiCam" :> <<96, 96, 1>>) @@ ("CHEC" :> <<48, 48, 1>>) @@
    ("ASTRICam" :> <<56, 56, 1>>) @@ ("VERITAS" :> <<54, 54, 1>>) @@
    ("MAGICCam" :> <<78, 78, 1>>) @@ ("FACT" :> <<90, 90, 1>>) @@
    ("HESS-I" :> <<72, 72, 1>>) @@ ("HESS-II" :> <<104, 104, 1>>)

\* [cam for cam in self.image_shapes]: the keys in insertion order
DefaultCameraTypes ==
    <<"LSTCam", "FlashCam", "NectarCam", "SCTCam", "DigiCam", "CHEC",
      "ASTRICam", "VERITAS", "MAGICCam", "FACT", "HESS-I", "HESS-II">>

ImplementedAlgorithms ==
    {"oversampling", "rebinning", "nearest_interpolation",
     "bilinear_interpolation", "bicubic_interpolation"}

\* the camera types whose native lattice is near-square
SquareCameras == {"ASTRICam", "CHEC", "SCTCam"}

\* the camera types whose pixel positions are rotated
RotatedCameras == {"LSTCam", "NectarCam", "MAGICCam"}

----------------------------------------------------------------------------
(* The camera geometry files (pixel_pos_files/<camera>.camgeom.fits).       *)
(* A geometry is carried by the number of pixel positions of the file and  *)
(* by the number of distinct rounded coordinates on each axis (the ticks   *)
(* get_grids derives at lines 679-683).  The native image shapes are made  *)
(* for these files: a near-square camera has as many ticks per axis as its *)
(* native image has cells, a hex camera half as many on its shorter axis.  *)

CameraGeometries(camera_type) ==
    LET side == DefaultImageShapes[camera_type][1]
        n == num_pixels[camera_type]
    IN  IF camera_type \in SquareCameras
        THEN {[n |-> n, x_ticks |-> side, y_ticks |-> side]}
        ELSE {[n |-> n, x_ticks |-> side \div 2, y_ticks |-> side - k] :
                 k \in IF camera_type = "LSTCam" THEN 0..MaxTickDiff ELSE {0}}

\* pixel_rot of __read_pix_pos_from_fits: 90.0 - header['PIX_ROT'], or 0.0
PixelRotation(camera_type) ==
    IF camera_type \in RotatedCameras THEN "90.0-PIX_ROT" ELSE "0.0"

----------------------------------------------------------------------------
(* get_grids and generate_table, on the dimensions of the arrays *)

\* pos[0][0:num_pixels], pos[1][0:num_pixels]
slice_pixelPos(pos, n) == [pos EXCEPT !.n = Min(pos.n, n)]

\* TruncDiv2 with the quotient rounded down, as a // 2
TruncDiv2_Floor(a) == a \div 2

\* int(a/2): the quotient truncated towards zero
TruncDiv2(a) == IF a >= 0 THEN a \div 2 ELSE -((-a) \div 2)

\* len(ticks[j::2]) for a list of n ticks
StrideLen(n, j) == IF n <= j THEN 0 ELSE (n - j + 1) \div 2

\* the sub-lattice second_ticks[j::2] paired with first_ticks[i::2]
VirtualParity(camera_type, hex_algo, i) ==
    IF hex_algo = "oversampling"
    THEN IF camera_type \notin {"DigiCam"}
         THEN (IF default_pad % 2 = 0 THEN i ELSE 1 - i)
         ELSE (IF default_pad % 2 = 0 THEN 1 - i ELSE i)
    ELSE IF camera_type \notin {"LSTCam", "NectarCam", "DigiCam"}
         THEN (IF default_pad % 2 = 0 THEN i ELSE 1 - i)
         ELSE (IF default_pad % 2 = 0 THEN 1 - i ELSE i)

\* len(first_ticks) and len(second_ticks) after the padding of lines 739-767
PaddedTicks(n_first, n_second, hex_algo, pad_ticks) ==
    LET tick_diff == IF hex_algo = "oversampling"
                     THEN n_first * 2 - n_second ELSE 0
        tick_diff_each_side == IF hex_algo = "oversampling"
                               THEN TruncDiv2(tick_diff) ELSE 0
    IN  [first  |-> n_first + 2 * Max(0, pad_ticks),
         second |-> n_second + 2 * Max(0, tick_diff_each_side + pad_ticks * 2)
                    + (IF tick_diff % 2 # 0 THEN 1 ELSE 0)]

\* the lengths of the two arrays get_grids returns: hex_grid.shape[0] and
\* output_grid.shape[0]
get_grids(pos, camera_type, grid_size_factor) ==
    LET output_dim == image_shapes[camera_type][1]
        hex_algo == hex_conversion_algorithm[camera_type]
    IN  IF camera_type \in SquareCameras
        THEN LET xt == pos.x_ticks + 2 * default_pad
                 yt == pos.y_ticks + 2 * default_pad
                 virtual_pixels == xt * yt - pos.n
             IN  [hex_grid    |-> pos.n + virtual_pixels,
                  output_grid |-> (output_dim * grid_size_factor)
                                  * (output_dim * grid_size_factor)]
        ELSE LET x_first == pos.x_ticks < pos.y_ticks
                 t == PaddedTicks(IF x_first THEN pos.x_ticks ELSE pos.y_ticks,
                                  IF x_first THEN pos.y_ticks ELSE pos.x_ticks,
                                  hex_algo, default_pad)
                 lattice ==
                     StrideLen(t.first, 0)
                       * StrideLen(t.second, VirtualParity(camera_type, hex_algo, 0))
                     + StrideLen(t.first, 1)
                       * StrideLen(t.second, VirtualParity(camera_type, hex_algo, 1))
                 virtual_pixels == lattice - pos.n
             IN  IF hex_algo = "oversampling"
                 THEN [hex_grid    |-> pos.n + virtual_pixels,
                       output_grid |-> (2 * t.first) * t.second]
                 ELSE [hex_grid    |-> pos.n + virtual_pixels + 4,
                       output_grid |-> (output_dim * grid_size_factor)
                                       * (output_dim * grid_size_factor)]

\* Truncate without the cut of line 507: the rows of the virtual pixels stay
Truncate_NoCut(rows, n_pix) == rows

\* mapping_matrix3d[:num_pixels+1]: the number of rows kept
Truncate(rows, n_pix) == Min(rows, n_pix + 1)

\* TrimCells with the branch of lines 519-527 taken for every camera type
TrimCells_OneBranch(camera_type, hex_algo) == default_pad * 2

\* the number of cells lines 518-536 cut from each axis of the padded table
TrimCells(camera_type, hex_algo) ==
    IF hex_algo # "oversampling" \/ camera_type \in SquareCameras
    THEN default_pad * 2
    ELSE default_pad * 4

\* generate_table: the table returned and the image shape stored, or the
\* exception raised
generate_table(camera_type) ==
    LET shape == image_shapes[camera_type]
        output_dim == shape[1]
        n_pix == num_pixels[camera_type]
        pos == slice_pixelPos(pixel_positions[camera_type], n_pix)
        pad == padding[camera_type]
        hex_algo == hex_conversion_algorithm[camera_type]
        grid_size_factor == IF hex_algo = "rebinning" THEN 10 ELSE 1
        grids == get_grids(pos, camera_type, grid_size_factor)
        \* np.reshape(tree.query(table_grid)[1], (output_dim*f, output_dim*f))
        nn_ok == grids.output_grid
                   = (output_dim * grid_size_factor) * (output_dim * grid_size_factor)
        \* np.zeros((hex_grid.shape[0]+1, output_dim + pad*2, output_dim + pad*2))
        side3d == output_dim + pad * 2
        rows == Truncate(grids.hex_grid + 1, n_pix)
        cut == TrimCells(camera_type, hex_algo)
        side == side3d - cut
        new_shape == <<shape[1] + pad * 2 - cut, shape[2] + pad * 2 - cut, shape[3]>>
        weights == <<camera_type, hex_algo, default_pad, pad, output_dim,
                     mask /\ hex_algo \in {"bilinear_interpolation",
                                           "bicubic_interpolation"},
                     pixel_rotation[camera_type]>>
        none == [rows |-> 0, cols |-> 0, weights |-> <<>>]
    IN  IF ~nn_ok \/ side3d < 0
        THEN [err |-> "ValueError", shape |-> shape, table |-> none]
        ELSE IF pad + default_pad = 0
        THEN [err |-> "UnboundLocalError", shape |-> shape, table |-> none]
        ELSE IF side < 0
        THEN [err |-> "ValueError", shape |-> shape, table |-> none]
        \* map_mat.reshape(map_mat.shape[0], image_shapes[0]*image_shapes[1])
        ELSE IF side * side # new_shape[1] * new_shape[2]
        THEN [err |-> "ValueError", shape |-> new_shape, table |-> none]
        ELSE [err |-> "",
              shape |-> new_shape,
              table |-> [rows |-> rows,
                         cols |-> new_shape[1] * new_shape[2],
                         weights |-> weights]]

----------------------------------------------------------------------------
(* __init__ *)

\* SelfCameraTypes that drops the camera types num_pixels does not hold
SelfCameraTypes_Supported(a) ==
    IF a.camera_types_given
    THEN SelectSeq(a.camera_types, LAMBDA c : c \in DOMAIN num_pixels)
    ELSE DefaultCameraTypes

\* lines 91-93: self.camera_types
SelfCameraTypes(a) ==
    IF a.camera_types_given THEN a.camera_types ELSE DefaultCameraTypes

\* lines 75-113: the dictionaries of the instance.  The comprehension of
\* line 101 raises KeyError for a camera type image_shapes does not hold.
Ctor_Fields ==
    /\ pc = "start"
    /\ LET cams == SelfCameraTypes(args)
       IN  /\ image_shapes' = DefaultImageShapes
           /\ camera_types' = cams
           /\ hex_conversion_algorithm' =
                  Merge([c \in Range(cams) |-> "oversampling"],
                        args.hex_conversion_algorithm)
           /\ IF Range(cams) \subseteq DOMAIN DefaultImageShapes
              THEN /\ interpolation_image_shape' =
                          Merge([c \in Range(cams) |-> DefaultImageShapes[c]],
                                args.interpolation_image_shape)
                   /\ padding' = Merge([c \in Range(cams) |-> 0], args.padding)
                   /\ mask' = (args.mask_interpolation = TRUE)
                   /\ pc' = IF cams = <<>> THEN "done" ELSE "read"
                   /\ err' = ""
              ELSE /\ UNCHANGED <<interpolation_image_shape, padding, mask>>
                   /\ pc' = "failed"
                   /\ err' = "KeyError"
    /\ idx' = 1
    /\ UNCHANGED <<gt, args, default_pad, pixel_positions, pixel_rotation,
                   mapping_tables, calls>>

camtype == camera_types[idx]

\* line 117 and __read_pix_pos_from_fits: the method returns False for a
\* camera type num_pixels does not hold, and unpacking False raises TypeError
Ctor_ReadPixPos ==
    /\ pc = "read"
    /\ IF camtype \in DOMAIN num_pixels
       THEN /\ \E pos \in CameraGeometries(camtype) :
                   pixel_positions' = Put(pixel_positions, camtype, pos)
            /\ pixel_rotation' = Put(pixel_rotation, camtype, PixelRotation(camtype))
            /\ pc' = "check"
            /\ err' = ""
       ELSE /\ UNCHANGED <<pixel_positions, pixel_rotation>>
            /\ pc' = "failed"
            /\ err' = "TypeError"
    /\ UNCHANGED <<gt, args, idx, camera_types, hex_conversion_algorithm,
                   interpolation_image_shape, padding, mask, image_shapes,
                   default_pad, mapping_tables, calls>>

\* Ctor_CheckAlgo without the raise of line 120
Ctor_CheckAlgo_NoRaise ==
    /\ pc = "check"
    /\ pc' = "shape"
    /\ err' = ""
    /\ UNCHANGED <<gt, args, idx, fields, calls>>

\* lines 118-120
Ctor_CheckAlgo ==
    /\ pc = "check"
    /\ IF hex_conversion_algorithm[camtype] \notin ImplementedAlgorithms
       THEN pc' = "failed" /\ err' = "ValueError: not implemented"
       ELSE pc' = "shape" /\ err' = ""
    /\ UNCHANGED <<gt, args, idx, fields, calls>>

\* lines 128-130
DefaultPad(hex_algo) == IF hex_algo = "bicubic_interpolation" THEN 3 ELSE 2

\* InternalPad with the cells of lines 133-137 for every camera type
InternalPad_Single(camera_type, hex_algo, pad_cells) == pad_cells * 2

\* lines 132-143: the cells the internal padding adds to each axis
InternalPad(camera_type, hex_algo, pad_cells) ==
    IF hex_algo # "oversampling" \/ camera_type \in SquareCameras
    THEN pad_cells * 2
    ELSE pad_cells * 4

\* Ctor_Shape with default_pad = 2 assigned once, before the first camera
\* type, instead of at line 128 of every turn of the loop
Ctor_Shape_PadSetOnce ==
    /\ pc = "shape"
    /\ LET hex_algo == hex_conversion_algorithm[camtype]
           s1 == IF hex_algo # "oversampling"
                 THEN interpolation_image_shape[camtype]
                 ELSE image_shapes[camtype]
           dp == IF hex_algo = "bicubic_interpolation" THEN 3
                 ELSE IF default_pad = 0 THEN 2 ELSE default_pad
           add == InternalPad(camtype, hex_algo, dp)
           s2 == <<s1[1] + add, s1[2] + add, s1[3]>>
           s3 == IF args.use_peak_times THEN <<s2[1], s2[2], 2>> ELSE s2
       IN  /\ default_pad' = dp
           /\ image_shapes' = [image_shapes EXCEPT ![camtype] = s3]
    /\ pc' = "generate"
    /\ UNCHANGED <<gt, args, err, idx, camera_types, hex_conversion_algorithm,
                   interpolation_image_shape, padding, mask, pixel_positions,
                   pixel_rotation, mapping_tables, calls>>

\* lines 122-150
Ctor_Shape ==
    /\ pc = "shape"
    /\ LET hex_algo == hex_conversion_algorithm[camtype]
           s1 == IF hex_algo # "oversampling"
                 THEN interpolation_image_shape[camtype]
                 ELSE image_shapes[camtype]
           dp == DefaultPad(hex_algo)
           add == InternalPad(camtype, hex_algo, dp)
           s2 == <<s1[1] + add, s1[2] + add, s1[3]>>
           s3 == IF args.use_peak_times THEN <<s2[1], s2[2], 2>> ELSE s2
       IN  /\ default_pad' = dp
           /\ image_shapes' = [image_shapes EXCEPT ![camtype] = s3]
    /\ pc' = "generate"
    /\ UNCHANGED <<gt, args, err, idx, camera_types, hex_conversion_algorithm,
                   interpolation_image_shape, padding, mask, pixel_positions,
                   pixel_rotation, mapping_tables, calls>>

\* line 152: self.mapping_tables[camtype] = self.generate_table(camtype),
\* then the next camera type of the loop
Ctor_Generate ==
    /\ pc = "generate"
    /\ LET r == generate_table(camtype)
       IN  IF r.err # ""
           THEN /\ image_shapes' = [image_shapes EXCEPT ![camtype] = r.shape]
                /\ pc' = "failed"
                /\ err' = r.err
                /\ UNCHANGED <<idx, mapping_tables>>
           ELSE /\ image_shapes' = [image_shapes EXCEPT ![camtype] = r.shape]
                /\ mapping_tables' = Put(mapping_tables, camtype, r.table)
                /\ idx' = idx + 1
                /\ pc' = IF idx = Len(camera_types) THEN "done" ELSE "read"
                /\ err' = ""
    /\ UNCHANGED <<gt, args, camera_types, hex_conversion_algorithm,
                   interpolation_image_shape, padding, mask, default_pad,
                   pixel_positions, pixel_rotation, calls>>

Ctor == Ctor_Fields \/ Ctor_ReadPixPos \/ Ctor_CheckAlgo \/ Ctor_Shape \/ Ctor_Generate

----------------------------------------------------------------------------
(* map_image.  The callers are threads that share the constructed mapper;  *)
(* a call is a record of its arguments, its position and its locals.       *)

NoTable == [rows |-> 0, cols |-> 0, weights |-> <<>>]

\* the camera types map_image is called for: built ones and an unknown one
MapCameraTypes == {"LSTCam", "SCTCam", "Foo"}

\* pixels.shape[0] of the arrays passed for a camera type
PixelRows(camera_type) ==
    IF camera_type \in DOMAIN num_pixels
    THEN {num_pixels[camera_type] - 1, num_pixels[camera_type],
          num_pixels[camera_type] + 1}
    ELSE {1}

\* the call c of the bag becomes d
Step(c, d) == calls' = (calls (-) SetToBag({c})) (+) SetToBag({d})

Raise(c, e) == Step(c, [c EXCEPT !.pc = "raised", !.err = e])

\* a caller enters map_image(pixels, camera_type) on the constructed mapper;
\* pixels is carried by its shape
Map_Call ==
    /\ pc = "done"
    /\ BagCardinality(calls) < NumThreads
    /\ \E c \in MapCameraTypes : \E n \in PixelRows(c) : \E ch \in {1, 2} :
           calls' = calls (+) SetToBag({
               [pc |-> "m166", camera_type |-> c, pixels |-> <<n, ch>>,
                output_dim |-> 0, map_tab |-> NoTable, n_channels |-> 0,
                channel |-> 0, result |-> <<>>, ret |-> <<>>, err |-> ""]})
    /\ UNCHANGED <<gt, args, pc, err, idx, fields>>

\* Map_166 that, for a camera type of num_pixels that image_shapes does not
\* hold, enters the default shape, the default algorithm and a table of that
\* shape in the fields and goes on, instead of raising KeyError
Map_166_BuildsOnDemand ==
    \E c \in BagToSet(calls) :
        /\ c.pc = "m166"
        /\ LET cam == c.camera_type
               known == cam \in DOMAIN image_shapes
               shape == IF known THEN image_shapes[cam]
                        ELSE DefaultImageShapes[cam]
           IN  IF known \/ cam \in DOMAIN num_pixels
               THEN /\ Step(c, [c EXCEPT !.pc = "m168",
                                         !.output_dim = shape[1]])
                    /\ image_shapes' = Put(image_shapes, cam, shape)
                    /\ hex_conversion_algorithm' =
                          IF cam \in DOMAIN hex_conversion_algorithm
                          THEN hex_conversion_algorithm
                          ELSE Put(hex_conversion_algorithm, cam, "oversampling")
                    /\ mapping_tables' =
                          IF cam \in DOMAIN mapping_tables THEN mapping_tables
                          ELSE Put(mapping_tables, cam,
                                   [rows |-> num_pixels[cam] + 1,
                                    cols |-> shape[1] * shape[2],
                                    weights |-> <<>>])
               ELSE /\ Raise(c, "KeyError")
                    /\ UNCHANGED <<image_shapes, hex_conversion_algorithm,
                                   mapping_tables>>
        /\ UNCHANGED <<gt, args, pc, err, idx, camera_types,
                       interpolation_image_shape, padding, mask, default_pad,
                       pixel_positions, pixel_rotation>>

\* lines 166-167: output_dim = self.image_shapes[camera_type][0] and
\* default_pad = self.default_pad
Map_166 ==
    /\ \E c \in BagToSet(calls) :
        /\ c.pc = "m166"
        /\ IF c.camera_type \notin DOMAIN image_shapes
           THEN Raise(c, "KeyError")
           ELSE IF default_pad = 0
           THEN Raise(c, "AttributeError")
           ELSE Step(c, [c EXCEPT !.pc = "m168",
                                  !.output_dim = image_shapes[c.camera_type][1]])
    /\ UNCHANGED <<gt, args, pc, err, idx, fields>>

\* lines 168-174: map_tab = self.mapping_tables[camera_type], hex_algo,
\* n_channels = pixels.shape[1], result = []
Map_168 ==
    /\ \E c \in BagToSet(calls) :
        /\ c.pc = "m168"
        /\ IF \/ c.camera_type \notin DOMAIN mapping_tables
              \/ c.camera_type \notin DOMAIN hex_conversion_algorithm
           THEN Raise(c, "KeyError")
           ELSE Step(c, [c EXCEPT !.pc = "m175",
                                  !.map_tab = mapping_tables[c.camera_type],
                                  !.n_channels = c.pixels[2],
                                  !.channel = 0, !.result = <<>>])
    /\ UNCHANGED <<gt, args, pc, err, idx, fields>>

\* vector.T @ map_tab is defined when the vector has as many entries as the
\* table has rows
MatMulOk(n, map_tab) == n = map_tab.rows

\* line 177: the image of one channel, carried by its shape and by the
\* channel and the weights it is the product of; <<>> for the exception
Image2D(pixels, channel, map_tab, shape) ==
    IF MatMulOk(pixels[1], map_tab) /\ map_tab.cols = shape[1] * shape[2]
    THEN <<[shape |-> <<shape[1], shape[2], 1>>, channel |-> channel,
            weights |-> map_tab.weights]>>
    ELSE <<>>

\* Map_175 that stores the number of channels of the call in image_shapes
Map_175_StoresChannels ==
    /\ \E c \in BagToSet(calls) :
        /\ c.pc = "m175"
        /\ LET shape == image_shapes[c.camera_type]
               img == Image2D(c.pixels, c.channel, c.map_tab, shape)
           IN  IF c.channel >= c.n_channels
               THEN /\ Step(c, [c EXCEPT !.pc = "m179"])
                    /\ UNCHANGED image_shapes
               ELSE IF img = <<>>
               THEN /\ Raise(c, "ValueError")
                    /\ UNCHANGED image_shapes
               ELSE /\ Step(c, [c EXCEPT !.channel = c.channel + 1,
                                         !.result = c.result \o img])
                    /\ image_shapes' =
                          [image_shapes EXCEPT ![c.camera_type] =
                              <<shape[1], shape[2], c.n_channels>>]
    /\ UNCHANGED <<gt, args, pc, err, idx, camera_types, hex_conversion_algorithm,
                   interpolation_image_shape, padding, mask, default_pad,
                   pixel_positions, pixel_rotation, mapping_tables>>

\* lines 175-178: one turn of the loop over the channels
Map_175 ==
    /\ \E c \in BagToSet(calls) :
        /\ c.pc = "m175"
        /\ LET img == Image2D(c.pixels, c.channel, c.map_tab,
                              image_shapes[c.camera_type])
           IN  IF c.channel >= c.n_channels
               THEN Step(c, [c EXCEPT !.pc = "m179"])
               ELSE IF img = <<>>
               THEN Raise(c, "ValueError")
               ELSE Step(c, [c EXCEPT !.channel = c.channel + 1,
                                      !.result = c.result \o img])
    /\ UNCHANGED <<gt, args, pc, err, idx, fields>>

\* np.concatenate(result, axis=-1) of images of one height and width
Concatenate(result) ==
    [shape |-> <<result[1].shape[1], result[1].shape[2], Len(result)>>,
     data  |-> [i \in DOMAIN result |-> <<result[i].channel, result[i].weights>>]]

\* lines 179-180
Map_179 ==
    /\ \E c \in BagToSet(calls) :
        /\ c.pc = "m179"
        /\ IF c.result = <<>>
           THEN Raise(c, "ValueError")
           ELSE Step(c, [c EXCEPT !.pc = "returned",
                                  !.ret = <<Concatenate(c.result)>>])
    /\ UNCHANGED <<gt, args, pc, err, idx, fields>>

MapImage ==
    Map_Call \/ Map_166 \/ Map_168 \/ Map_175 \/ Map_179

----------------------------------------------------------------------------
(* The arguments of __init__ and the specifications *)

\* the camera types the lists of several camera types are made of: a hex
\* one, a near-square one and one no dictionary holds
ListCameraTypes == {"LSTCam", "SCTCam", "Foo"}

RequestedShapes == {<<ReqSize, ReqSize, 1>>, <<ReqSize, ReqSize + 1, 1>>}

\* the arguments with camera_types one of Lists and with dictionaries that
\* give some of the supported camera types of the list a value
ArgSet(Lists, Algos, Pads, Shapes, Masks, Peaks) ==
    UNION {[camera_types_given : {TRUE},
            camera_types : {cams},
            hex_conversion_algorithm :
                PartialFns(Range(cams) \cap DOMAIN num_pixels, Algos),
            padding : PartialFns(Range(cams) \cap DOMAIN num_pixels, Pads),
            interpolation_image_shape :
                PartialFns(Range(cams) \cap DOMAIN num_pixels, Shapes),
            mask_interpolation : Masks,
            use_peak_times : Peaks] : cams \in Lists}

\* camera_types=None and no dictionary: every camera type, oversampling
NoArgs ==
    [camera_types_given |-> FALSE, camera_types |-> <<>>,
     hex_conversion_algorithm |-> EmptyDict, padding |-> EmptyDict,
     interpolation_image_shape |-> EmptyDict,
     mask_interpolation |-> FALSE, use_peak_times |-> FALSE]

InitFields ==
    /\ pc = "start"
    /\ err = ""
    /\ idx = 1
    /\ camera_types = <<>>
    /\ hex_conversion_algorithm = EmptyDict
    /\ interpolation_image_shape = EmptyDict
    /\ padding = EmptyDict
    /\ mask = FALSE
    /\ image_shapes = EmptyDict
    /\ default_pad = 0
    /\ pixel_positions = EmptyDict
    /\ pixel_rotation = EmptyDict
    /\ mapping_tables = EmptyDict
    /\ calls = EmptyBag

\* construction with every strategy, padding and requested shape
InitBuild ==
    /\ args \in ArgSet(DistinctSeqs(ListCameraTypes, MaxCams)
                         \cup {<<c>> : c \in DOMAIN num_pixels},
                       ImplementedAlgorithms \cup {"trilinear"},
                       1..MaxPad, RequestedShapes, BOOLEAN, BOOLEAN)
               \cup {NoArgs}
    /\ InitFields
    /\ gt = NoFrame

NextBuild == Ctor

SpecBuild == InitBuild /\ [][NextBuild]_vars

\* construction, then concurrent calls of map_image
Init ==
    /\ args \in ArgSet(DistinctSeqs(ListCameraTypes, MaxCams),
                       {"bicubic_interpolation"}, {}, {}, {FALSE}, {FALSE})
    /\ InitFields
    /\ gt = NoFrame

Next == Ctor \/ MapImage

Spec == Init /\ [][Next]_vars

----------------------------------------------------------------------------
(* generate_table followed weight by weight, on a miniature camera.        *)
(*                                                                         *)
(* gt holds the locals of one call of generate_table.  The camera is a     *)
(* lattice of MiniSide columns: MiniSide x MiniSide pixels for a camera    *)
(* type of SquareCameras, MiniSide columns of MiniSide pixels, every other *)
(* column shifted by half a pixel, for a hexagonal one.  Coordinates are   *)
(* integers: gt.unit holds, per axis, the square of the length the unit of *)
(* that axis stands for, so that distances are compared exactly.  Weights  *)
(* are exact fractions.                                                    *)

\* number of columns of the miniature camera
MiniSide == 2

RECURSIVE SortedSeq(_)
\* the integers of S in ascending order (np.unique)
SortedSeq(S) ==
    IF S = {} THEN <<>>
    ELSE LET m == CHOOSE a \in S : \A b \in S : a <= b
         IN  <<m>> \o SortedSeq(S \ {m})

RECURSIVE SortPoints(_)
\* the points of S as a list
SortPoints(S) ==
    IF S = {} THEN <<>>
    ELSE LET m == CHOOSE a \in S : \A b \in S :
                      a[1] < b[1] \/ (a[1] = b[1] /\ a[2] <= b[2])
         IN  <<m>> \o SortPoints(S \ {m})

\* np.unique of one coordinate of the positions
Ticks(pos, k) == SortedSeq({pos[i][k] : i \in DOMAIN pos})

\* a list of positions, and the list without its last position where that
\* leaves the ticks of both axes as they are (a camera with a corner missing)
Layouts(all) ==
    LET whole == SortPoints(all)
        cut == SubSeq(whole, 1, Len(whole) - 1)
    IN  {whole} \cup {s \in {cut} : /\ Ticks(s, 1) = Ticks(whole, 1)
                                    /\ Ticks(s, 2) = Ticks(whole, 2)}

\* the pixel positions a geometry file of the miniature camera may hold.
\* A hexagonal camera has twice as many ticks on y as on x, or one less
\* (tick_diff of get_grids 0 or 1), its pixels on the sites get_grids
\* leaves free of virtual pixels.
MiniPositions(camera_type) ==
    LET n == MiniSide
    IN  IF camera_type \in SquareCameras
        THEN Layouts((0..(n - 1)) \X (0..(n - 1)))
        ELSE Layouts({p \in (0..(n - 1)) \X (0..(2 * n - 1)) :
                         p[1] % 2 = p[2] % 2})
             \cup Layouts({p \in (0..(n - 1)) \X (0..(2 * n - 2)) :
                              p[1] % 2 # p[2] % 2})

\* the side of the image shape the class gives the miniature camera
MiniImageSide(camera_type) ==
    IF camera_type \in SquareCameras THEN MiniSide ELSE 2 * MiniSide

RECURSIVE PadTicks(_, _, _)
\* lines 719-723, 757-762: k times, one tick more at each end
PadTicks(ticks, k, dist) ==
    IF k = 0 THEN ticks
    ELSE PadTicks(<<ticks[1] - dist>> \o ticks \o <<ticks[Len(ticks)] + dist>>,
                  k - 1, dist)

\* ticks[i::2]
EveryOther(ticks, i) ==
    [k \in 1..((Len(ticks) - i + 1) \div 2) |-> ticks[i + 2 * k - 1]]

\* lines 833-838: the points of the lattice that are no pixel.  The order of
\* the list is that of a Python set; every entry follows the real pixels.
get_virtual_pixels(x_ticks, y_ticks, pos) ==
    SortPoints((Range(x_ticks) \X Range(y_ticks)) \ Range(pos))

\* np.linspace(lo, hi, num), in units of 1/(num-1)
linspace(lo, hi, num) == [i \in 1..num |-> lo * (num - 1) + (i - 1) * (hi - lo)]

\* np.meshgrid(xx, yy), reshaped and stacked in columns
meshgrid(xx, yy) ==
    [k \in 1..(Len(xx) * Len(yy)) |->
        <<xx[((k - 1) % Len(xx)) + 1], yy[((k - 1) \div Len(xx)) + 1]>>]

Scaled(points, sx, sy) ==
    [k \in DOMAIN points |-> <<points[k][1] * sx, points[k][2] * sy>>]

\* lines 685, 719-735: get_grids for a camera type of SquareCameras, num the
\* points of the output grid on each axis (output_dim*grid_size_factor)
SquareGrids(pos, pad_ticks, num) ==
    LET x0 == Ticks(pos, 1)
        y0 == Ticks(pos, 2)
        x_ticks == PadTicks(x0, pad_ticks, x0[2] - x0[1])
        y_ticks == PadTicks(y0, pad_ticks, y0[2] - y0[1])
        all == pos \o get_virtual_pixels(x_ticks, y_ticks, pos)
        s == num - 1
        xx == linspace(x_ticks[1], x_ticks[Len(x_ticks)], num)
        yy == linspace(y_ticks[1], y_ticks[Len(y_ticks)], num)
    IN  [hex_grid |-> Scaled(all, s, s),
         table_grid |-> meshgrid(xx, yy),
         unit |-> <<1, 1>>]

\* lines 738-822: get_grids for a hexagonal camera type and oversampling,
\* with fewer ticks on x than on y.  The unit is a quarter of dist_first on
\* x and half of dist_second on y; dist_first is sqrt(3) times dist_second.
HexGrids(camera_type, pos, pad_ticks) ==
    LET f0 == Ticks(pos, 1)
        s0 == Ticks(pos, 2)
        tick_diff == Len(f0) * 2 - Len(s0)
        s1 == PadTicks(s0, Max(0, TruncDiv2(tick_diff) + pad_ticks * 2),
                      s0[2] - s0[1])
        first_ticks == PadTicks(f0, pad_ticks, f0[2] - f0[1])
        second_ticks == IF tick_diff % 2 # 0
                        THEN <<s1[1] - (s0[2] - s0[1])>> \o s1 ELSE s1
        j(i) == IF camera_type # "DigiCam"
                THEN (IF pad_ticks % 2 = 0 THEN i ELSE 1 - i)
                ELSE (IF pad_ticks % 2 = 0 THEN 1 - i ELSE i)
        virtual(i) == get_virtual_pixels(EveryOther(first_ticks, i),
                                         EveryOther(second_ticks, j(i)), pos)
        all == pos \o virtual(0) \o virtual(1)
        grid_first == [k \in 1..(2 * Len(first_ticks)) |->
                          4 * first_ticks[(k + 1) \div 2]
                          + (IF k % 2 = 1 THEN -1 ELSE 1)]
        grid_second == [k \in DOMAIN second_ticks |-> 2 * second_ticks[k] + 1]
    IN  [hex_grid |-> Scaled(all, 4, 2),
         table_grid |-> meshgrid(grid_first, grid_second),
         unit |-> <<3, 4>>]

\* the squared distance of two points
SqDist(p, q, unit) ==
    unit[1] * (p[1] - q[1]) * (p[1] - q[1])
    + unit[2] * (p[2] - q[2]) * (p[2] - q[2])

RECURSIVE MinOf(_, _, _)
\* the least of f[lo..hi]
MinOf(f, lo, hi) ==
    IF lo = hi THEN f[lo]
    ELSE LET mid == (lo + hi) \div 2
         IN  Min(MinOf(f, lo, mid), MinOf(f, mid + 1, hi))

\* the indices tree.query may return for the point p: those of the points
\* of hex_grid nearest to p (which one, where several are, is up to cKDTree)
Nearest(p, hex_grid, unit) ==
    LET n == Len(hex_grid)
        d == [i \in 1..n |-> SqDist(p, hex_grid[i], unit)]
        least == MinOf(d, 1, n)
    IN  {i \in 0..(n - 1) : d[i + 1] = least}

RECURSIVE TieChoices(_, _)
\* the ways to pick one index of near[k] for every k of S
TieChoices(near, S) ==
    IF S = {} THEN {<<>>}
    ELSE LET k == CHOOSE j \in S : TRUE
         IN  {(k :> i) @@ f : f \in TieChoices(near, S \ {k}), i \in near[k]}

\* the results tree.query may return for the points of near
Queries(near) ==
    LET tied == {k \in DOMAIN near : Cardinality(near[k]) > 1}
        one == <<>> \o [k \in DOMAIN near |->
                          IF k \in tied THEN -1 ELSE CHOOSE i \in near[k] : TRUE]
    IN  {<<>> \o [k \in DOMAIN near |-> IF k \in tied THEN f[k] ELSE one[k]] :
         f \in TieChoices(near, tied)}

\* the entry [r][y][x] of a matrix: np.zeros where nothing was assigned
At(m, r, y, x) ==
    IF <<r, y, x>> \in DOMAIN m.nz THEN m.nz[<<r, y, x>>] ELSE Zero

\* the angles 90.0 - header['PIX_ROT'] a geometry file may give, each by
\* <<c, s, q>> with cosine c/q and sine s/q: no rotation, or a rotation of
\* the cameras of RotatedCameras
Rotations(camera_type) ==
    IF camera_type \in RotatedCameras
    THEN {<<1, 0, 1>>, <<4, -3, 5>>}
    ELSE {<<1, 0, 1>>}

\* the frames of generate_table after line 190
Frames ==
    UNION {
      UNION {
        {[pc |-> "grids", camera_type |-> c, hex_algo |-> a[1],
          output_dim |-> a[2] + InternalPad(c, a[1], DefaultPad(a[1])),
          num_pixels |-> Len(pos), pos |-> pos, pad |-> p,
          default_pad |-> DefaultPad(a[1]), mask |-> FALSE,
          pixel_rotation |-> rot] :
           a \in IF c \in SquareCameras
                 THEN {<<"oversampling", MiniImageSide(c)>>,
                       <<"nearest_interpolation", MiniImageSide(c)>>,
                       <<"nearest_interpolation", MiniImageSide(c) - 1>>,
                       <<"rebinning", MiniImageSide(c)>>}
                 ELSE {<<"oversampling", MiniImageSide(c)>>},
           p \in 0..MaxPad, rot \in Rotations(c)}
        : pos \in MiniPositions(c)}
      : c \in {"SCTCam", "LSTCam"}}

\* number of columns of the miniature camera of the interpolations
InterpSide == 4

\* the frames of generate_table after line 190 for the interpolations of a
\* camera type of SquareCameras, at the native size of the image and at a
\* larger one, at which no point of the output grid lies midway between two
\* source points (tree.query has one answer for every point)
InterpFrames ==
    UNION {
      UNION {
        {[pc |-> "grids", camera_type |-> "SCTCam", hex_algo |-> a,
          output_dim |-> size + InternalPad("SCTCam", a, DefaultPad(a)),
          num_pixels |-> Len(pos), pos |-> pos, pad |-> p,
          default_pad |-> DefaultPad(a), mask |-> m,
          pixel_rotation |-> <<1, 0, 1>>] :
           size \in {InterpSide,
                     InterpSide + 2 - ((InterpSide + 2 * DefaultPad(a)) % 2)},
           p \in 0..MaxPad, m \in BOOLEAN}
        : a \in {"bilinear_interpolation", "bicubic_interpolation"}}
      : pos \in Layouts((0..(InterpSide - 1)) \X (0..(InterpSide - 1)))}

\* lines 194-196
GridSizeFactor(hex_algo) == IF hex_algo = "rebinning" THEN 10 ELSE 1

\* lines 191-197
GT_GetGrids ==
    /\ gt.pc = "grids"
    /\ LET g == IF gt.camera_type \in SquareCameras
                THEN SquareGrids(gt.pos, gt.default_pad,
                                 gt.output_dim * GridSizeFactor(gt.hex_algo))
                ELSE HexGrids(gt.camera_type, gt.pos, gt.default_pad)
       IN  gt' = [pc |-> "query", hex_grid |-> g.hex_grid,
                  table_grid |-> g.table_grid, unit |-> g.unit] @@ gt
    /\ UNCHANGED <<args, pc, err, idx, fields, calls>>

\* PixelWeight with the weight 1 for every camera type
PixelWeight_AlwaysOne(camera_type, hex_algo) == One

\* lines 204-207
PixelWeight(camera_type, hex_algo) ==
    IF hex_algo = "oversampling" /\ camera_type \notin SquareCameras
    THEN Rat(1, 4) ELSE One

\* lines 200-207: nn_index, pixel_weight and the matrix of zeros
GT_Query ==
    /\ gt.pc = "query"
    /\ gt.hex_algo \in {"oversampling", "nearest_interpolation"}
    /\ LET near == <<>> \o [k \in DOMAIN gt.table_grid |->
                       Nearest(gt.table_grid[k], gt.hex_grid, gt.unit)]
           side == gt.output_dim + gt.pad * 2
       IN  IF Len(gt.table_grid) # gt.output_dim * gt.output_dim
           THEN gt' = [gt EXCEPT !.pc = "ValueError"]
           ELSE \E q \in Queries(near) :
                   gt' = [pc |-> "assign",
                          nn_index |-> [y \in 0..(gt.output_dim - 1) |->
                                          [x \in 0..(gt.output_dim - 1) |->
                                              q[y * gt.output_dim + x + 1]]],
                          pixel_weight |->
                              PixelWeight(gt.camera_type, gt.hex_algo),
                          mapping_matrix3d |->
                              [shape |-> <<Len(gt.hex_grid) + 1, side, side>>,
                               nz |-> <<>>]] @@ gt
    /\ UNCHANGED <<args, pc, err, idx, fields, calls>>

\* RowOf that sends the index of a virtual pixel to row 0
RowOf_VirtualToZero(index) == IF index >= gt.num_pixels THEN 0 ELSE index + 1

\* line 211: the row of the matrix written for an index of nn_index
RowOf(index) == index + 1

\* lines 208-211: the weight of every cell of the image
GT_Assign ==
    /\ gt.pc = "assign"
    /\ LET cells == (0..(gt.output_dim - 1)) \X (0..(gt.output_dim - 1))
           at(c) == <<RowOf(gt.nn_index[c[1]][c[2]]),
                      c[1] + gt.pad, c[2] + gt.pad>>
           new == {at(c) : c \in cells}
           old == gt.mapping_matrix3d.nz
       IN  gt' = [gt EXCEPT
                    !.pc = "truncate",
                    !.mapping_matrix3d.nz =
                        [t \in new \cup DOMAIN old |->
                            IF t \in new THEN gt.pixel_weight ELSE old[t]]]
    /\ UNCHANGED <<args, pc, err, idx, fields, calls>>

\* the matrix after the assignments, for the cells of the image row by row
\* and every k in turn, of the weight list[n][k][2] to the row list[n][k][1]
\* of the n-th cell
Assigned(shape, output_dim, pad, list) ==
    LET y(n) == ((n - 1) \div output_dim) + pad
        x(n) == ((n - 1) % output_dim) + pad
        at == UNION {{<<list[n][k][1], y(n), x(n)>> : k \in DOMAIN list[n]} :
                        n \in DOMAIN list}
        value(t) ==
            LET w == list[(t[2] - pad) * output_dim + (t[3] - pad) + 1]
                last == CHOOSE k \in DOMAIN w :
                           /\ w[k][1] = t[1]
                           /\ \A l \in DOMAIN w : l > k => w[l][1] # t[1]
            IN  w[last][2]
    IN  [shape |-> shape,
         nz |-> [t \in {u \in at : value(u) # Zero} |-> value(t)]]

\* line 223: Counter of the block of nn_index of the cell (y, x)
Counter(nn_index, y, x, factor) ==
    LET block == ((y * factor)..(y * factor + factor - 1))
                 \X ((x * factor)..(x * factor + factor - 1))
        keys == {nn_index[b[1]][b[2]] : b \in block}
    IN  [i \in keys |->
            Cardinality({b \in block : nn_index[b[1]][b[2]] = i})]

RECURSIVE CounterSum(_, _)
\* line 225: np.sum(list(counter.values()))
CounterSum(counter, keys) ==
    IF keys = {} THEN 0
    ELSE LET i == CHOOSE k \in keys : TRUE
         IN  counter[i] + CounterSum(counter, keys \ {i})

\* Weights with the counts themselves, not divided by their sum
Weights_Counts(counter, i) == Rat(counter[i], 1)

\* line 225: the weight of the key i of a Counter
Weights(counter, i) == Rat(counter[i], CounterSum(counter, DOMAIN counter))

\* lines 214-227: rebinning, the share of every pixel in the block of
\* grid_size_factor x grid_size_factor points of each cell
GT_Rebin ==
    /\ gt.pc = "query"
    /\ gt.hex_algo = "rebinning"
    /\ LET factor == GridSizeFactor(gt.hex_algo)
           num == gt.output_dim * factor
           near == <<>> \o [k \in DOMAIN gt.table_grid |->
                       Nearest(gt.table_grid[k], gt.hex_grid, gt.unit)]
           side == gt.output_dim + gt.pad * 2
       IN  \E q \in Queries(near) :
              LET nn == [y \in 0..(num - 1) |->
                           [x \in 0..(num - 1) |-> q[y * num + x + 1]]]
                  entries(n) ==
                      LET counter == Counter(nn, (n - 1) \div gt.output_dim,
                                             (n - 1) % gt.output_dim, factor)
                          pixel_index == SortedSeq(DOMAIN counter)
                      IN  <<>> \o [k \in DOMAIN pixel_index |->
                                     <<pixel_index[k] + 1,
                                       Weights(counter, pixel_index[k])>>]
                  list == <<>> \o [n \in 1..(gt.output_dim * gt.output_dim) |->
                                     entries(n)]
              IN  gt' = [pc |-> "truncate",
                         nn_index |-> nn,
                         mapping_matrix3d |->
                             Assigned(<<Len(gt.hex_grid) + 1, side, side>>,
                                      gt.output_dim, gt.pad, list)] @@ gt
    /\ UNCHANGED <<args, pc, err, idx, fields, calls>>

\* Bisect with the step back of lines 281-284 only beyond the last tick
Bisect_NoStepBack(ticks, t) ==
    Min(Cardinality({k \in DOMAIN ticks : ticks[k] < t}), Len(ticks) - 1)

\* bisect.bisect_left(ticks, t), and lines 281-284: one less where not 0
Bisect(ticks, t) ==
    LET index == Cardinality({k \in DOMAIN ticks : ticks[k] < t})
    IN  IF index # 0 THEN index - 1 ELSE index

\* dict_hex_grid[point]
IndexOf(hex_grid, point) ==
    (CHOOSE k \in DOMAIN hex_grid : hex_grid[k] = point) - 1

\* get_weights with the weights of the second and the third corner exchanged
get_weights_Exchanged(p, target) ==
    LET divisor == (p[4][1] - p[1][1]) * (p[4][2] - p[1][2])
    IN  <<Rat((p[4][1] - target[1]) * (p[4][2] - target[2]), divisor),
          Rat((target[1] - p[1][1]) * (p[4][2] - target[2]), divisor),
          Rat((p[4][1] - target[1]) * (target[2] - p[1][2]), divisor),
          Rat((target[1] - p[1][1]) * (target[2] - p[1][2]), divisor)>>

\* lines 572-663: the weights of the corner points p for the target, by
\* barycentric coordinates for three points and by the areas of the
\* rectangle of p[1] and p[4] for four
get_weights(p, target) ==
    IF Len(p) = 3
    THEN LET divisor == (p[2][2] - p[3][2]) * (p[1][1] - p[3][1])
                        + (p[3][1] - p[2][1]) * (p[1][2] - p[3][2])
             w0 == Rat((p[2][2] - p[3][2]) * (target[1] - p[3][1])
                       + (p[3][1] - p[2][1]) * (target[2] - p[3][2]), divisor)
             w1 == Rat((p[3][2] - p[1][2]) * (target[1] - p[3][1])
                       + (p[1][1] - p[3][1]) * (target[2] - p[3][2]), divisor)
         IN  IF divisor = 0 THEN "ZeroDivisionError"
             ELSE <<w0, w1, RSub(RSub(One, w0), w1)>>
    ELSE LET divisor == (p[4][1] - p[1][1]) * (p[4][2] - p[1][2])
         IN  IF divisor = 0 THEN "ZeroDivisionError"
             ELSE <<Rat((p[4][1] - target[1]) * (p[4][2] - target[2]), divisor),
                    Rat((p[4][1] - target[1]) * (target[2] - p[1][2]), divisor),
                    Rat((target[1] - p[1][1]) * (p[4][2] - target[2]), divisor),
                    Rat((target[1] - p[1][1]) * (target[2] - p[1][2]), divisor)>>

\* lines 245-266: the corners of the square of the ticks (i, j), counted
\* from 0
SquarePoints(x_ticks, y_ticks, i, j) ==
    LET X(k) == x_ticks[k + 1]
        Y(k) == y_ticks[k + 1]
        nx == Len(x_ticks)
        ny == Len(y_ticks)
    IN  IF i = nx - 1 /\ j < ny - 1
        THEN <<<<X(i - 1), Y(j)>>, <<X(i - 1), Y(j + 1)>>,
               <<X(i), Y(j)>>, <<X(i), Y(j + 1)>>>>
        ELSE IF j = ny - 1 /\ i < nx - 1
        THEN <<<<X(i), Y(j - 1)>>, <<X(i), Y(j)>>,
               <<X(i + 1), Y(j - 1)>>, <<X(i + 1), Y(j)>>>>
        ELSE IF i = nx - 1 /\ j = ny - 1
        THEN <<<<X(i - 1), Y(j - 1)>>, <<X(i - 1), Y(j)>>,
               <<X(i), Y(j - 1)>>, <<X(i), Y(j)>>>>
        ELSE <<<<X(i), Y(j)>>, <<X(i), Y(j + 1)>>,
               <<X(i + 1), Y(j)>>, <<X(i + 1), Y(j + 1)>>>>

\* lines 230-307: bilinear interpolation for a camera type of SquareCameras
GT_Bilinear ==
    /\ gt.pc = "query"
    /\ gt.hex_algo = "bilinear_interpolation"
    /\ gt.camera_type \in SquareCameras
    /\ LET near == <<>> \o [k \in DOMAIN gt.table_grid |->
                       Nearest(gt.table_grid[k], gt.hex_grid, gt.unit)]
           side == gt.output_dim + gt.pad * 2
           shape == <<Len(gt.hex_grid) + 1, side, side>>
           x_ticks == Ticks(gt.hex_grid, 1)
           y_ticks == Ticks(gt.hex_grid, 2)
           corners(n) ==
               LET target == gt.table_grid[n]
                   corner_points ==
                       SquarePoints(x_ticks, y_ticks,
                                    Bisect(x_ticks, target[1]),
                                    Bisect(y_ticks, target[2]))
                   weights == get_weights(corner_points, target)
               IN  <<>> \o [k \in 1..4 |->
                              <<IndexOf(gt.hex_grid, corner_points[k]) + 1,
                                weights[k]>>]
           list == <<>> \o [n \in DOMAIN gt.table_grid |-> corners(n)]
       IN  \E q \in Queries(near) :
              gt' = [pc |-> "truncate",
                     nn_index |-> [y \in 0..(gt.output_dim - 1) |->
                                     [x \in 0..(gt.output_dim - 1) |->
                                         q[y * gt.output_dim + x + 1]]],
                     mapping_matrix3d |->
                         Assigned(shape, gt.output_dim, gt.pad, list)] @@ gt
    /\ UNCHANGED <<args, pc, err, idx, fields, calls>>

\* lines 339-363: the corners of the four squares around the square of the
\* ticks (i, j), counted from 0, or none at the border of the grid
BiggerSquares(x_ticks, y_ticks, i, j) ==
    LET X(k) == x_ticks[k + 1]
        Y(k) == y_ticks[k + 1]
    IN  IF i = 0 \/ j = 0 \/ i >= Len(x_ticks) - 2 \/ j >= Len(y_ticks) - 2
        THEN <<>>
        ELSE << <<<<X(i - 1), Y(j - 1)>>, <<X(i - 1), Y(j + 1)>>,
                  <<X(i + 1), Y(j - 1)>>, <<X(i + 1), Y(j + 1)>>>>,
                <<<<X(i - 1), Y(j)>>, <<X(i - 1), Y(j + 2)>>,
                  <<X(i + 1), Y(j)>>, <<X(i + 1), Y(j + 2)>>>>,
                <<<<X(i), Y(j - 1)>>, <<X(i), Y(j + 1)>>,
                  <<X(i + 2), Y(j - 1)>>, <<X(i + 2), Y(j + 1)>>>>,
                <<<<X(i), Y(j)>>, <<X(i), Y(j + 2)>>,
                  <<X(i + 2), Y(j)>>, <<X(i + 2), Y(j + 2)>>>> >>

\* Quarter with the whole weight
Quarter_Whole(w) == w

\* Quarter with the half of the weight
Quarter_Half(w) == RDiv(w, Rat(2, 1))

\* line 504: weights[k][j][i][l]/4
Quarter(w) == RDiv(w, Rat(4, 1))

\* lines 310-410, 496-504: bicubic interpolation for a camera type of
\* SquareCameras.  At the border of the grid the index of every corner is
\* -1 and its weight 0, which line 504 writes to row 0.
GT_Bicubic ==
    /\ gt.pc = "query"
    /\ gt.hex_algo = "bicubic_interpolation"
    /\ gt.camera_type \in SquareCameras
    /\ LET near == <<>> \o [k \in DOMAIN gt.table_grid |->
                       Nearest(gt.table_grid[k], gt.hex_grid, gt.unit)]
           side == gt.output_dim + gt.pad * 2
           shape == <<Len(gt.hex_grid) + 1, side, side>>
           x_ticks == Ticks(gt.hex_grid, 1)
           y_ticks == Ticks(gt.hex_grid, 2)
           corners(n) ==
               LET target == gt.table_grid[n]
                   corner_points ==
                       BiggerSquares(x_ticks, y_ticks,
                                     Bisect(x_ticks, target[1]),
                                     Bisect(y_ticks, target[2]))
                   weights == <<>> \o [i \in DOMAIN corner_points |->
                                  get_weights(corner_points[i], target)]
               IN  <<>> \o [k \in 1..16 |->
                       LET i == ((k - 1) \div 4) + 1
                           l == ((k - 1) % 4) + 1
                       IN  IF corner_points = <<>>
                           THEN <<0, Zero>>
                           ELSE <<IndexOf(gt.hex_grid, corner_points[i][l]) + 1,
                                  Quarter(weights[i][l])>>]
           list == <<>> \o [n \in DOMAIN gt.table_grid |-> corners(n)]
       IN  \E q \in Queries(near) :
              gt' = [pc |-> "truncate",
                     nn_index |-> [y \in 0..(gt.output_dim - 1) |->
                                     [x \in 0..(gt.output_dim - 1) |->
                                         q[y * gt.output_dim + x + 1]]],
                     mapping_matrix3d |->
                         Assigned(shape, gt.output_dim, gt.pad, list)] @@ gt
    /\ UNCHANGED <<args, pc, err, idx, fields, calls>>

\* lines 506-507
GT_Truncate ==
    /\ gt.pc = "truncate"
    /\ LET m == gt.mapping_matrix3d
           rows == Truncate(m.shape[1], gt.num_pixels)
       IN  gt' = [gt EXCEPT
                    !.pc = "truncated",
                    !.mapping_matrix3d =
                        [shape |-> <<rows, m.shape[2], m.shape[3]>>,
                         nz |-> [t \in {u \in DOMAIN m.nz : u[1] < rows} |->
                                    m.nz[t]]]]
    /\ UNCHANGED <<args, pc, err, idx, fields, calls>>

\* the entries of a matrix that are not zero, from all its entries
Sparse(shape, val) ==
    LET all == (0..(shape[1] - 1)) \X (0..(shape[2] - 1)) \X (0..(shape[3] - 1))
    IN  [shape |-> shape,
         nz |-> [t \in {u \in all : val[u] # Zero} |-> val[t]]]

\* mask_interpolation that leaves the matrix as it is
mask_interpolation_Open(m, nn_index, n_pix, pad) == m

\* lines 846-854
mask_interpolation(m, nn_index, n_pix, pad) ==
    LET n == Cardinality(DOMAIN nn_index)
        open == {<<j + pad, i + pad>> : <<j, i>> \in
                    {c \in (0..(n - 1)) \X (0..(n - 1)) :
                        nn_index[c[1]][c[2]] < n_pix}}
    IN  [shape |-> m.shape,
         nz |-> [t \in {u \in DOMAIN m.nz :
                          u[1] = 0 \/ <<u[2], u[3]>> \in open} |-> m.nz[t]]]

\* lines 508-510
GT_Mask ==
    /\ gt.pc = "truncated"
    /\ gt' = [gt EXCEPT
                !.pc = "masked",
                !.mapping_matrix3d =
                    IF /\ gt.mask
                       /\ gt.hex_algo \in {"bilinear_interpolation",
                                           "bicubic_interpolation"}
                    THEN mask_interpolation(gt.mapping_matrix3d, gt.nn_index,
                                            gt.num_pixels, gt.pad)
                    ELSE gt.mapping_matrix3d]
    /\ UNCHANGED <<args, pc, err, idx, fields, calls>>

\* lines 863-872: cv2.warpAffine of every row of the matrix with the matrix
\* cv2.getRotationMatrix2D((w/2, h/2), angle, 1.0): the cell (x, y) of the
\* result is the bilinear interpolation of the image at the point (x, y) is
\* the rotation of, zero outside the image
rotate_mapping_table(m, output_dim, angle) ==
    LET c == angle[1]
        s == angle[2]
        q == angle[3]
        w == output_dim
        D == 2 * q
        Nx(x, y) == c * (2 * x - w) - s * (2 * y - w) + q * w
        Ny(x, y) == s * (2 * x - w) + c * (2 * y - w) + q * w
        px(r, y, x) == IF x \in 0..(w - 1) /\ y \in 0..(w - 1)
                       THEN At(m, r, y, x) ELSE Zero
        val == [t \in (0..(m.shape[1] - 1)) \X (0..(w - 1)) \X (0..(w - 1)) |->
                  LET r == t[1]
                      x0 == Nx(t[3], t[2]) \div D
                      y0 == Ny(t[3], t[2]) \div D
                      fx == Rat(Nx(t[3], t[2]) % D, D)
                      fy == Rat(Ny(t[3], t[2]) % D, D)
                      gx == RSub(One, fx)
                      gy == RSub(One, fy)
                  IN  RAdd(RAdd(RMul(RMul(gx, gy), px(r, y0, x0)),
                                RMul(RMul(fx, gy), px(r, y0, x0 + 1))),
                           RAdd(RMul(RMul(gx, fy), px(r, y0 + 1, x0)),
                                RMul(RMul(fx, fy), px(r, y0 + 1, x0 + 1))))]
    IN  Sparse(<<m.shape[1], w, w>>, val)

\* lines 511-513
GT_Rotate ==
    /\ gt.pc = "masked"
    /\ gt' = [gt EXCEPT
                !.pc = "rotated",
                !.mapping_matrix3d =
                    IF gt.camera_type \in RotatedCameras
                    THEN rotate_mapping_table(gt.mapping_matrix3d,
                                              gt.output_dim + gt.pad * 2,
                                              gt.pixel_rotation)
                    ELSE gt.mapping_matrix3d]
    /\ UNCHANGED <<args, pc, err, idx, fields, calls>>

\* the sum of the rows lo..hi of a matrix
Total(m, lo, hi) ==
    RSum([r \in lo..hi |->
            RSum([y \in 0..(m.shape[2] - 1) |->
                    RSum([x \in 0..(m.shape[3] - 1) |-> At(m, r, y, x)],
                         0, m.shape[3] - 1)],
                 0, m.shape[2] - 1)],
         lo, hi)

\* normalization by the sum of the weights, not divided by num_pixels
normalization_ToOne(m, n_pix) ==
    LET norm_factor == Total(m, 1, m.shape[1] - 1)
        val == [t \in DOMAIN m.nz |->
                   IF t[1] = 0 THEN m.nz[t] ELSE RDiv(m.nz[t], norm_factor)]
    IN  [shape |-> m.shape,
         nz |-> [t \in {u \in DOMAIN m.nz : val[u] # Zero} |-> val[t]]]

\* normalization that multiplies by the factor
normalization_Times(m, n_pix) ==
    LET norm_factor == RDiv(Total(m, 1, m.shape[1] - 1), Rat(n_pix, 1))
        val == [t \in DOMAIN m.nz |->
                   IF t[1] = 0 THEN m.nz[t] ELSE RMul(m.nz[t], norm_factor)]
    IN  [shape |-> m.shape,
         nz |-> [t \in {u \in DOMAIN m.nz : val[u] # Zero} |-> val[t]]]

\* lines 840-844.  A factor of 0 or nan turns the weights 0 of rows 1.. into
\* nan as well (numpy divides with a warning, not an exception).
normalization(m, n_pix) ==
    LET norm_factor == RDiv(Total(m, 1, m.shape[1] - 1), Rat(n_pix, 1))
        all == (0..(m.shape[1] - 1)) \X (0..(m.shape[2] - 1))
               \X (0..(m.shape[3] - 1))
        at == IF RDiv(Zero, norm_factor) = Zero THEN DOMAIN m.nz ELSE all
        val == [t \in at |->
                   IF t[1] = 0 THEN At(m, t[1], t[2], t[3])
                   ELSE RDiv(At(m, t[1], t[2], t[3]), norm_factor)]
    IN  [shape |-> m.shape,
         nz |-> [t \in {u \in at : val[u] # Zero} |-> val[t]]]

\* GT_Normalize with the normalization for every strategy
GT_Normalize_Every ==
    /\ gt.pc = "rotated"
    /\ gt' = [gt EXCEPT
                !.pc = "normalized",
                !.mapping_matrix3d =
                    normalization(gt.mapping_matrix3d, gt.num_pixels)]
    /\ UNCHANGED <<args, pc, err, idx, fields, calls>>

\* lines 514-516
GT_Normalize ==
    /\ gt.pc = "rotated"
    /\ gt' = [gt EXCEPT
                !.pc = "normalized",
                !.mapping_matrix3d =
                    IF gt.hex_algo \notin {"oversampling",
                                           "nearest_interpolation"}
                    THEN normalization(gt.mapping_matrix3d, gt.num_pixels)
                    ELSE gt.mapping_matrix3d]
    /\ UNCHANGED <<args, pc, err, idx, fields, calls>>

\* TrimBand with the band of lines 529-531 for every camera type
TrimBand_Wide(camera_type, hex_algo, pad_cells) == pad_cells * 2

\* TrimBand with the band of lines 520-522 for every camera type
TrimBand_Single(camera_type, hex_algo, pad_cells) == pad_cells

\* lines 518-536: the cells cut from each side of the matrix
TrimBand(camera_type, hex_algo, pad_cells) ==
    IF hex_algo # "oversampling" \/ camera_type \in SquareCameras
    THEN pad_cells
    ELSE pad_cells * 2

\* lines 518-536: map_mat, the matrix without the band of the default padding
GT_Trim ==
    /\ gt.pc = "normalized"
    /\ LET m == gt.mapping_matrix3d
           band == TrimBand(gt.camera_type, gt.hex_algo, gt.default_pad)
           side == gt.output_dim + gt.pad * 2 - 2 * band
           keep == {t \in DOMAIN m.nz : /\ t[2] - band \in 0..(side - 1)
                                        /\ t[3] - band \in 0..(side - 1)}
       IN  gt' = [map_mat |->
                    IF gt.pad + gt.default_pad # 0
                    THEN [shape |-> <<m.shape[1], side, side>>,
                          nz |-> [t \in {<<u[1], u[2] - band, u[3] - band>> :
                                            u \in keep} |->
                                     m.nz[<<t[1], t[2] + band, t[3] + band>>]]]
                    ELSE m] @@ [gt EXCEPT !.pc = "final"]
    /\ UNCHANGED <<args, pc, err, idx, fields, calls>>

InitWeights ==
    /\ args = NoArgs
    /\ InitFields
    /\ gt \in Frames \cup InterpFrames

NextWeights ==
    \/ GT_GetGrids \/ GT_Query \/ GT_Assign \/ GT_Rebin
    \/ GT_Bilinear \/ GT_Bicubic \/ GT_Truncate
    \/ GT_Mask \/ GT_Rotate \/ GT_Normalize \/ GT_Trim

SpecWeights == InitWeights /\ [][NextWeights]_vars

----------------------------------------------------------------------------
(* normalization and get_weights on their own.                             *)

\* number of cells of the tensors given to normalization
NormCells == 2

\* the weight tensors given to normalization: two rows of real pixels below
\* row 0, of NormCells cells each, every weight -1, 0 or 1
NormTensors ==
    LET shape == <<3, 1, NormCells>>
        all == (0..2) \X {0} \X (0..(NormCells - 1))
    IN  {Sparse(shape, val) : val \in [all -> {Zero, One, <<-1, 1>>}]}

InitNorm ==
    /\ args = NoArgs
    /\ InitFields
    /\ gt \in {[pc |-> "tensor", num_pixels |-> 2, mapping_matrix3d |-> m] :
                  m \in NormTensors}

\* lines 840-844: normalization of the tensor
Norm_Once ==
    /\ gt.pc = "tensor"
    /\ gt' = [pc |-> "once", tensor |-> gt.mapping_matrix3d,
              num_pixels |-> gt.num_pixels,
              mapping_matrix3d |->
                  normalization(gt.mapping_matrix3d, gt.num_pixels)]
    /\ UNCHANGED <<args, pc, err, idx, fields, calls>>

\* lines 840-844: normalization of the normalized tensor
Norm_Twice ==
    /\ gt.pc = "once"
    /\ gt' = [pc |-> "twice", once |-> gt.mapping_matrix3d,
              mapping_matrix3d |->
                  normalization(gt.mapping_matrix3d, gt.num_pixels)] @@ gt
    /\ UNCHANGED <<args, pc, err, idx, fields, calls>>

NextNorm == Norm_Once \/ Norm_Twice

SpecNorm == InitNorm /\ [][NextNorm]_vars

\* the greatest coordinate of the points given to get_weights
MaxCoord == 3

\* the rectangles with their sides along the axes, by their corners in the
\* order of lines 263-266: lower left, upper left, lower right, upper right
Rectangles ==
    {<<<<x[1], y[1]>>, <<x[1], y[2]>>, <<x[2], y[1]>>, <<x[2], y[2]>>>> :
        x \in {c \in (0..MaxCoord) \X (0..MaxCoord) : c[1] < c[2]},
        y \in {c \in (0..MaxCoord) \X (0..MaxCoord) : c[1] < c[2]}}

InitCorners ==
    /\ args = NoArgs
    /\ InitFields
    /\ gt \in {[pc |-> "corners", p |-> p, target |-> target] :
                  p \in Rectangles,
                  target \in (0..MaxCoord) \X (0..MaxCoord)}

\* line 299: weights = self.get_weights(corner_points, table_grid), for one
\* point of the grid
GW_Call ==
    /\ gt.pc = "corners"
    /\ gt' = [pc |-> "weights", weights |-> get_weights(gt.p, gt.target)] @@ gt
    /\ UNCHANGED <<args, pc, err, idx, fields, calls>>

NextCorners == GW_Call

SpecCorners == InitCorners /\ [][NextCorners]_vars

----------------------------------------------------------------------------
(* The padding of the ticks in get_grids, for a camera type that is not    *)
(* of SquareCameras (lines 737-767).                                       *)

\* the greatest number of distinct coordinates of the pixels on an axis
MaxTicks == 14

\* np.unique of the coordinates of a lattice with n ticks on an axis, in
\* units of the distance of two ticks
TickList(n) == [k \in 1..n |-> k]

InitTicks ==
    /\ args = NoArgs
    /\ InitFields
    /\ gt \in {[pc |-> "ticks", hex_algo |-> a, default_pad |-> DefaultPad(a),
                x_ticks |-> TickList(nx), y_ticks |-> TickList(ny)] :
                  a \in {"oversampling", "nearest_interpolation",
                         "bicubic_interpolation"},
                  nx \in 2..MaxTicks, ny \in 2..MaxTicks}

\* lines 738-755: the axis with the fewer ticks comes first
Tick_Order ==
    /\ gt.pc = "ticks"
    /\ LET x_first == Len(gt.x_ticks) < Len(gt.y_ticks)
           first_ticks == IF x_first THEN gt.x_ticks ELSE gt.y_ticks
           second_ticks == IF x_first THEN gt.y_ticks ELSE gt.x_ticks
           tick_diff == IF gt.hex_algo = "oversampling"
                        THEN Len(first_ticks) * 2 - Len(second_ticks) ELSE 0
       IN  gt' = [pc |-> "pad_second", i |-> 0,
                  first_ticks |-> first_ticks, second_ticks |-> second_ticks,
                  n_first |-> Len(first_ticks), n_second |-> Len(second_ticks),
                  dist_first |-> Abs(first_ticks[1] - first_ticks[2]),
                  dist_second |-> Abs(second_ticks[1] - second_ticks[2]),
                  tick_diff |-> tick_diff,
                  tick_diff_each_side |->
                      IF gt.hex_algo = "oversampling"
                      THEN TruncDiv2(tick_diff) ELSE 0] @@ gt
    /\ UNCHANGED <<args, pc, err, idx, fields, calls>>

\* lines 756-758: one turn of the loop over
\* np.arange(0, tick_diff_each_side + default_pad*2, 1), or its end
Tick_PadSecond ==
    /\ gt.pc = "pad_second"
    /\ gt' = IF gt.i < gt.tick_diff_each_side + gt.default_pad * 2
             THEN [gt EXCEPT !.i = @ + 1,
                     !.second_ticks =
                         <<@[1] - gt.dist_second>> \o @
                         \o <<@[Len(@)] + gt.dist_second>>]
             ELSE [gt EXCEPT !.pc = "pad_first", !.i = 0]
    /\ UNCHANGED <<args, pc, err, idx, fields, calls>>

\* lines 759-761: one turn of the loop over np.arange(0, default_pad, 1),
\* or its end
Tick_PadFirst ==
    /\ gt.pc = "pad_first"
    /\ gt' = IF gt.i < gt.default_pad
             THEN [gt EXCEPT !.i = @ + 1,
                     !.first_ticks =
                         <<@[1] - gt.dist_first>> \o @
                         \o <<@[Len(@)] + gt.dist_first>>]
             ELSE [gt EXCEPT !.pc = "odd"]
    /\ UNCHANGED <<args, pc, err, idx, fields, calls>>

\* lines 763-764: one tick more before the first for an odd tick_diff
Tick_Odd ==
    /\ gt.pc = "odd"
    /\ gt' = [gt EXCEPT !.pc = "padded",
                !.second_ticks =
                    IF gt.tick_diff % 2 # 0
                    THEN <<@[1] - gt.dist_second>> \o @ ELSE @]
    /\ UNCHANGED <<args, pc, err, idx, fields, calls>>

NextTicks == Tick_Order \/ Tick_PadSecond \/ Tick_PadFirst \/ Tick_Odd

SpecTicks == InitTicks /\ [][NextTicks]_vars

----------------------------------------------------------------------------
(* The choice of the corner points of a bilinear interpolation for one     *)
(* point of the output grid (lines 243-299).                               *)

\* the lists of at least two ticks of an axis, in increasing order as
\* np.unique returns them
TickLists ==
    {SortedSeq(S) : S \in {T \in SUBSET (0..MaxCoord) : Cardinality(T) >= 2}}

\* the points of the output grid: on the ticks, between them and beyond
\* the first and the last, in halves of the unit of the ticks
Targets == (-1..(2 * MaxCoord + 1)) \X (-1..(2 * MaxCoord + 1))

\* a list of ticks in halves of its unit
Halves(ticks) == [k \in DOMAIN ticks |-> 2 * ticks[k]]

InitSelect ==
    /\ args = NoArgs
    /\ InitFields
    /\ gt \in {[pc |-> "target", x_ticks |-> Halves(xt), y_ticks |-> Halves(yt),
                target |-> t] :
                  xt \in TickLists, yt \in TickLists, t \in Targets}

\* lines 279-287, 299: the cell of the lattice of the target, its corner
\* points and their weights
BL_Select ==
    /\ gt.pc = "target"
    /\ LET x_index == Bisect(gt.x_ticks, gt.target[1])
           y_index == Bisect(gt.y_ticks, gt.target[2])
           corner_points == SquarePoints(gt.x_ticks, gt.y_ticks,
                                         x_index, y_index)
       IN  gt' = [pc |-> "selected", x_index |-> x_index, y_index |-> y_index,
                  corner_points |-> corner_points,
                  weights |-> get_weights(corner_points, gt.target)] @@ gt
    /\ UNCHANGED <<args, pc, err, idx, fields, calls>>

NextSelect == BL_Select

SpecSelect == InitSelect /\ [][NextSelect]_vars

----------------------------------------------------------------------------
(* The smoothing of the ticks of the CHEC camera in get_grids (lines       *)
(* 687-716).  Coordinates are in units of 0.001, to which lines 679-680    *)
(* round them.                                                             *)

\* number of pixels of the miniature CHEC camera
SmoothPixels == 3

\* the greatest coordinate of a pixel, in units of 0.001
MaxMilli == 4

\* the coordinates of the pixels on the first axis, and those on the
\* second, the pixels listed by increasing coordinate on the second
SmoothCoords ==
    {<<x, y>> : x \in [1..SmoothPixels -> 0..MaxMilli],
                y \in {v \in [1..SmoothPixels -> 0..MaxMilli] :
                         \A k \in 1..(SmoothPixels - 1) : v[k] <= v[k + 1]}}

\* NearDuplicate with a difference below 0.002 only
NearDuplicate_Below(a, b) == Abs(a - b) < 2

\* lines 694, 706: np.abs(ticks[i]-ticks[i+1]) <= 0.002
NearDuplicate(a, b) == Abs(a - b) <= 2

\* lines 693-696, 705-708: the ticks to remove, each with the next tick
RemoveChange(ticks) ==
    LET at == {i \in 1..(Len(ticks) - 1) : NearDuplicate(ticks[i], ticks[i + 1])}
        order == SortedSeq(at)
    IN  [k \in DOMAIN order |-> <<ticks[order[k]], ticks[order[k] + 1]>>]

\* ticks.remove(val): the list without the first entry equal to val
ListRemove(ticks, val) ==
    LET i == CHOOSE k \in DOMAIN ticks :
                 ticks[k] = val /\ \A n \in 1..(k - 1) : ticks[n] # val
    IN  [k \in 1..(Len(ticks) - 1) |-> IF k < i THEN ticks[k] ELSE ticks[k + 1]]

\* lines 699-701, 713-715: every coordinate equal to old becomes new
Changed(v, old, new) == [k \in DOMAIN v |-> IF v[k] = old THEN new ELSE v[k]]

InitSmooth ==
    /\ args = NoArgs
    /\ InitFields
    /\ gt \in {[pc |-> "x_collect", pos |-> c, x |-> c[1], y |-> c[2],
                x_ticks |-> SortedSeq(Range(c[1])),
                y_ticks |-> SortedSeq(Range(c[2]))] : c \in SmoothCoords}

\* lines 690-696
Smooth_X_Collect ==
    /\ gt.pc = "x_collect"
    /\ gt' = [pc |-> "x_remove", j |-> 1,
              remove_change |-> RemoveChange(gt.x_ticks)] @@ gt
    /\ UNCHANGED <<args, pc, err, idx, fields, calls>>

\* lines 697-701: one turn of the loop over remove_x_val, or its end
Smooth_X_Remove ==
    /\ gt.pc = "x_remove"
    /\ gt' = IF gt.j <= Len(gt.remove_change)
             THEN [gt EXCEPT
                     !.j = @ + 1,
                     !.x_ticks = ListRemove(@, gt.remove_change[gt.j][1]),
                     !.x = Changed(@, gt.remove_change[gt.j][1],
                                   gt.remove_change[gt.j][2])]
             ELSE [gt EXCEPT !.pc = "y_collect"]
    /\ UNCHANGED <<args, pc, err, idx, fields, calls>>

\* lines 703-708
Smooth_Y_Collect ==
    /\ gt.pc = "y_collect"
    /\ gt' = [gt EXCEPT !.pc = "y_remove", !.j = 1,
                !.remove_change = RemoveChange(gt.y_ticks)]
    /\ UNCHANGED <<args, pc, err, idx, fields, calls>>

\* lines 711-715: one turn of the loop over remove_y_val, or its end
Smooth_Y_Remove ==
    /\ gt.pc = "y_remove"
    /\ gt' = IF gt.j <= Len(gt.remove_change)
             THEN [gt EXCEPT
                     !.j = @ + 1,
                     !.y_ticks = ListRemove(@, gt.remove_change[gt.j][1]),
                     !.y = Changed(@, gt.remove_change[gt.j][1],
                                   gt.remove_change[gt.j][2])]
             ELSE [gt EXCEPT !.pc = "smoothed"]
    /\ UNCHANGED <<args, pc, err, idx, fields, calls>>

NextSmooth ==
    Smooth_X_Collect \/ Smooth_X_Remove \/ Smooth_Y_Collect \/ Smooth_Y_Remove

SpecSmooth == InitSmooth /\ [][NextSmooth]_vars

----------------------------------------------------------------------------
(* Properties of map_image *)

Calls == BagToSet(calls)

Finished(c) == c.pc \in {"returned", "raised"}

\* the camera types the constructor was asked to build
Requested ==
    IF args.camera_types_given
    THEN Range(args.camera_types) ELSE Range(DefaultCameraTypes)

\* C1: for a constructed camera type, map_image with a pixel array whose
\* first dimension is num_pixels and with 1 or 2 channels succeeds and
\* returns a raster of shape (H, W, c), (H, W) the stored image shape.
C1_MapImageReturnsRaster ==
    \A c \in Calls :
        (/\ Finished(c)
         /\ c.camera_type \in DOMAIN mapping_tables
         /\ c.pixels[1] = num_pixels[c.camera_type]
         /\ c.pixels[2] \in {1, 2})
        => /\ c.pc = "returned"
           /\ c.ret[1].shape = <<image_shapes[c.camera_type][1],
                                 image_shapes[c.camera_type][2], c.pixels[2]>>

\* C4: map_image raises, returns no raster and leaves the mapper unchanged
\* whenever the first dimension of the pixel array differs from num_pixels.
C4_WrongLengthRaises ==
    \A c \in Calls :
        (/\ Finished(c)
         /\ c.camera_type \in DOMAIN mapping_tables
         /\ c.pixels[1] # num_pixels[c.camera_type])
        => /\ c.pc = "raised"
           /\ c.ret = <<>>

\* C5: map_image for a camera type that was not given at construction
\* raises and returns no raster, whether the camera type is one of the
\* twelve of image_shapes or not.
C5_UnbuiltCameraRaises ==
    \A c \in Calls :
        c.camera_type \notin Requested
        => /\ c.pc # "returned"
           /\ c.pc \notin {"m175", "m179"}
           /\ c.result = <<>>
           /\ c.ret = <<>>

C5_Witness ==
    \E c, d \in Calls :
        /\ c.pc = "raised" /\ c.camera_type \notin DOMAIN image_shapes
        /\ d.pc = "raised" /\ d.camera_type \in DOMAIN image_shapes
        /\ d.camera_type \notin Requested
        /\ mapping_tables # EmptyDict

\* map_image run alone on the mapper as it stands: the raster returned,
\* <<>> when it raises
MapImageAlone(pixels, camera_type) ==
    IF \/ camera_type \notin DOMAIN image_shapes
       \/ default_pad = 0
       \/ camera_type \notin DOMAIN mapping_tables
    THEN <<>>
    ELSE LET img(ch) == Image2D(pixels, ch, mapping_tables[camera_type],
                                image_shapes[camera_type])
         IN  IF pixels[2] = 0 \/ \E ch \in 0..(pixels[2] - 1) : img(ch) = <<>>
             THEN <<>>
             ELSE <<Concatenate([i \in 1..pixels[2] |-> img(i - 1)[1]])>>

\* C8: a step of map_image writes no field of the mapper, and under every
\* interleaving of the calls each call ends as it would when run alone:
\* with the same raster, or with an exception.
C8_MapImageWritesNothing ==
    [][/\ calls' # calls => fields' = fields
       /\ \A c \in BagToSet(calls') :
            /\ c.pc = "returned" => c.ret = MapImageAlone(c.pixels, c.camera_type)'
            /\ c.pc = "raised" => MapImageAlone(c.pixels, c.camera_type)' = <<>>]_vars

C8_Witness ==
    \E c, d \in Calls :
        /\ c.pc = "m175" /\ c.channel = 1 /\ c.n_channels = 2
        /\ d.pc = "m168"
        /\ c.camera_type # d.camera_type

----------------------------------------------------------------------------
(* Properties of the constructor *)

\* the native raster size under oversampling, the requested one otherwise
RasterSize(c) ==
    IF hex_conversion_algorithm[c] = "oversampling"
    THEN <<DefaultImageShapes[c][1], DefaultImageShapes[c][2]>>
    ELSE <<interpolation_image_shape[c][1], interpolation_image_shape[c][2]>>

\* C2: for every camera type and strategy the table generate_table returns
\* has num_pixels + 1 rows and finalWidth * finalHeight columns, the final
\* shape being the one stored in image_shapes.
C2_TableDimensions ==
    \A c \in DOMAIN mapping_tables :
        /\ mapping_tables[c].rows = num_pixels[c] + 1
        /\ mapping_tables[c].cols = image_shapes[c][1] * image_shapes[c][2]

C2_Witness ==
    /\ pc = "done"
    /\ \E c \in DOMAIN mapping_tables :
        /\ hex_conversion_algorithm[c] = "rebinning"
        /\ padding[c] = MaxPad
        /\ c \notin SquareCameras

\* C3: the image shape stored by the construction has
\* height = width = S + 2*p, S the native raster size under oversampling and
\* the requested size otherwise, p the external padding: the internal pad
\* of the constructor is removed exactly.
C3_FinalShape ==
    \A c \in DOMAIN mapping_tables :
        /\ image_shapes[c][1] = RasterSize(c)[1] + 2 * padding[c]
        /\ image_shapes[c][2] = RasterSize(c)[1] + 2 * padding[c]

C3_Witness ==
    /\ pc = "done"
    /\ \E c, d \in DOMAIN mapping_tables :
        /\ c \notin SquareCameras
        /\ hex_conversion_algorithm[c] = "oversampling"
        /\ padding[c] = MaxPad
        /\ hex_conversion_algorithm[d] = "bicubic_interpolation"
        /\ image_shapes[d][1] = ReqSize

\* the requested camera types given a strategy that is not implemented
BadStrategy ==
    {c \in Requested \cap DOMAIN args.hex_conversion_algorithm :
        args.hex_conversion_algorithm[c] \notin ImplementedAlgorithms}

\* C6: construction with an unknown strategy name for a requested camera
\* type fails; no table is stored for that camera type and generate_table
\* is never entered for it.
C6_UnknownStrategyFails ==
    /\ BadStrategy # {} => pc # "done"
    /\ \A c \in BadStrategy :
        /\ c \notin DOMAIN mapping_tables
        /\ ~(pc \in {"shape", "generate"} /\ camtype = c)
    /\ (pc = "failed" /\ err = "ValueError: not implemented")
       => camtype \in BadStrategy

C6_Witness ==
    /\ pc = "failed"
    /\ err = "ValueError: not implemented"
    /\ mapping_tables # EmptyDict

\* the requested camera types that are not supported
Unsupported == Requested \ DOMAIN num_pixels

\* C7: construction requested for a camera type that is not supported
\* fails, and no table is stored for that camera type.
C7_UnsupportedCameraFails ==
    /\ Unsupported # {} => pc # "done"
    /\ \A c \in Unsupported : c \notin DOMAIN mapping_tables
    /\ pc = "failed" => err # ""

C7_Witness ==
    /\ pc = "failed"
    /\ err = "KeyError"
    /\ Len(args.camera_types) = MaxCams
    /\ Unsupported # {}

\* C9 as stated: the build of a camera type writes only its own table and
\* shape entry, so the build of a later camera type of the list changes no
\* field an earlier build wrote.
C9_BuildsShareNoState ==
    [][(pc \in {"read", "check", "shape", "generate"} /\ idx > 1)
       => /\ default_pad' = default_pad
          /\ \A c \in DOMAIN mapping_tables :
                c # camtype => /\ mapping_tables'[c] = mapping_tables[c]
                               /\ image_shapes'[c] = image_shapes[c]]_vars

\* C9 amended: a build also writes the mapper-wide default_pad, and reads it
\* back in generate_table; the builds run one after another, each assigns
\* default_pad before it reads it, so every table is computed from the
\* default_pad, the padded shape and the configuration of its own camera
\* type, whatever the order of the list, and the entries of the other
\* camera types are left as they were.
C9_SequentialBuildsIndependent ==
    /\ pc = "generate"
       => default_pad = DefaultPad(hex_conversion_algorithm[camtype])
    /\ \A c \in DOMAIN mapping_tables :
        LET algo == hex_conversion_algorithm[c]
        IN  /\ mapping_tables[c].weights[1] = c
            /\ mapping_tables[c].weights[2] = algo
            /\ mapping_tables[c].weights[3] = DefaultPad(algo)
            /\ mapping_tables[c].weights[4] = padding[c]
            /\ mapping_tables[c].weights[5] =
                   RasterSize(c)[1] + InternalPad(c, algo, DefaultPad(algo))

C9_Witness ==
    /\ pc = "done"
    /\ Len(camera_types) = 2
    /\ mapping_tables[camera_types[1]].weights[3] = 3
    /\ mapping_tables[camera_types[2]].weights[3] = 2

----------------------------------------------------------------------------
(* Properties of the weights *)

\* line 200: a build by oversampling or nearest interpolation
NearestBuild == gt.hex_algo \in {"oversampling", "nearest_interpolation"}

\* the cells of the image of such a build whose nearest point of hex_grid is
\* a virtual pixel
VirtualCells ==
    IF NearestBuild
    THEN {c \in (0..(gt.output_dim - 1)) \X (0..(gt.output_dim - 1)) :
             gt.nn_index[c[1]][c[2]] >= gt.num_pixels}
    ELSE {}

ColumnSum(m, y, x) ==
    LET rows == {t[1] : t \in {u \in DOMAIN m.nz : u[2] = y /\ u[3] = x}}
        list == SortedSeq(rows)
    IN  IF rows = {} THEN Zero
        ELSE RSum([k \in DOMAIN list |-> At(m, list[k], y, x)], 1, Len(list))

Cells(m) == (0..(m.shape[2] - 1)) \X (0..(m.shape[3] - 1))

Rotated == gt.camera_type \in RotatedCameras /\ gt.pixel_rotation # <<1, 0, 1>>

\* the per-pixel weight of the strategy: 1/4 for a hexagonal camera type
\* under oversampling, 1 otherwise
FixedWeight ==
    IF gt.hex_algo = "oversampling" /\ gt.camera_type \notin SquareCameras
    THEN <<1, 4>> ELSE <<1, 1>>

\* C11 as stated: in the final table of an oversampling or nearest build,
\* for every camera type, the rotated ones included, the sum of the weights
\* of every column is exactly 0 or exactly the fixed per-pixel weight.
C11_ColumnSumZeroOrWeight ==
    gt.pc = "final" /\ NearestBuild
    => \A c \in Cells(gt.map_mat) :
          ColumnSum(gt.map_mat, c[1], c[2]) \in {Zero, FixedWeight}

\* C11 as the code has it: in the final table of an oversampling or nearest
\* build the sum of the weights of every column lies between 0 and the fixed
\* per-pixel weight; it is exactly 0 or exactly that weight where the table
\* was not rotated by an angle other than 0 (the rotation of LSTCam,
\* NectarCam and MAGICCam resamples every row and spreads a weight over the
\* neighbouring cells).
C11_ColumnSumWithinWeight ==
    gt.pc = "final" /\ NearestBuild
    => \A c \in Cells(gt.map_mat) :
          LET sum == ColumnSum(gt.map_mat, c[1], c[2])
          IN  /\ ~RLess(sum, Zero) /\ ~RLess(FixedWeight, sum)
              /\ ~Rotated => sum \in {Zero, FixedWeight}

\* a final table of hexagonal oversampling that was not rotated, with
\* columns of sum 1/4 and columns of sum 0
C11_Witness ==
    /\ gt.pc = "final" /\ gt.hex_algo = "oversampling"
    /\ gt.camera_type = "LSTCam" /\ ~Rotated
    /\ \E c \in Cells(gt.map_mat) : ColumnSum(gt.map_mat, c[1], c[2]) # Zero
    /\ \E c \in Cells(gt.map_mat) : ColumnSum(gt.map_mat, c[1], c[2]) = Zero

\* the cells of the final raster whose nearest source point is a real pixel
RealCells ==
    LET band == TrimBand(gt.camera_type, gt.hex_algo, gt.default_pad)
        lo == Max(0, band - gt.pad)
        hi == Min(gt.output_dim - 1, gt.output_dim - 1 - band + gt.pad)
    IN  {c \in (lo..hi) \X (lo..hi) : gt.nn_index[c[1]][c[2]] < gt.num_pixels}

\* C12 as stated: for oversampling and nearest tables, for every geometry
\* and every requested raster size, an all-ones pixel vector maps to a
\* raster of sum num_pixels, every real pixel having total weight 1.
C12_AllOnesSumsToNumPixels ==
    gt.pc = "final" /\ NearestBuild
    => /\ Total(gt.map_mat, 0, gt.map_mat.shape[1] - 1) = Rat(gt.num_pixels, 1)
       /\ \A r \in 1..gt.num_pixels : Total(gt.map_mat, r, r) = One

\* C12 as the code has it: where the table is not rotated, an all-ones pixel
\* vector maps to a raster whose sum is the fixed per-pixel weight times the
\* number of cells of the final raster whose nearest source point is a real
\* pixel.  That is num_pixels, every real pixel having total weight 1, for
\* a near-square camera type at the native raster size and for a hexagonal
\* camera type with fewer ticks on its long axis than twice those of its
\* short axis; at another requested size a pixel is the nearest of more or
\* fewer cells, and with twice as many ticks the trim cuts half a row.
C12_AllOnesCountsRealCells ==
    gt.pc = "final" /\ NearestBuild /\ ~Rotated
    => /\ Total(gt.map_mat, 0, gt.map_mat.shape[1] - 1)
            = RMul(FixedWeight, Rat(Cardinality(RealCells), 1))
       /\ (\/ gt.camera_type \in SquareCameras
              /\ gt.output_dim - 2 * gt.default_pad
                     = MiniImageSide(gt.camera_type)
           \/ /\ gt.camera_type \notin SquareCameras
              /\ 2 * Len(Ticks(gt.pos, 1)) > Len(Ticks(gt.pos, 2)))
          => /\ Total(gt.map_mat, 0, gt.map_mat.shape[1] - 1)
                   = Rat(gt.num_pixels, 1)
             /\ \A r \in 1..gt.num_pixels : Total(gt.map_mat, r, r) = One

\* a final nearest-interpolation table requested below the native size,
\* whose all-ones raster sums to less than num_pixels
C12_Witness ==
    /\ gt.pc = "final" /\ gt.hex_algo = "nearest_interpolation"
    /\ gt.output_dim - 2 * gt.default_pad < MiniImageSide(gt.camera_type)
    /\ RealCells # {}
    /\ RLess(Total(gt.map_mat, 0, gt.map_mat.shape[1] - 1),
             Rat(gt.num_pixels, 1))

\* the points of the output grid in the block of the cell c of a rebinning
\* build whose nearest source point is a real pixel
RealShare(c) ==
    LET factor == GridSizeFactor(gt.hex_algo)
        block == ((c[1] * factor)..(c[1] * factor + factor - 1))
                 \X ((c[2] * factor)..(c[2] * factor + factor - 1))
    IN  Cardinality({b \in block : gt.nn_index[b[1]][b[2]] < gt.num_pixels})

\* C13 as stated: in a rebinning table, the weights of every output cell
\* sum over the rows of the table to exactly 1.
C13_CellWeightsSumToOne ==
    gt.pc = "final" /\ gt.hex_algo = "rebinning"
    => \A c \in Cells(gt.map_mat) : ColumnSum(gt.map_mat, c[1], c[2]) = One

\* C13 as the code has it: the weights lines 214-227 assign to a cell sum to
\* exactly 1 over the rows of the matrix, the rows of the virtual pixels
\* included.  The truncation removes those rows: the weights of a cell then
\* sum to the share of the points of its block whose nearest source point
\* is a real pixel, and the normalization divides every weight by one
\* factor, so that the cells of a block of real pixels alone all have the
\* same sum, which is 1 only where that factor is 1.
C13_CellWeightsSumToRealShare ==
    gt.hex_algo = "rebinning"
    => LET cells == (0..(gt.output_dim - 1)) \X (0..(gt.output_dim - 1))
           factor == GridSizeFactor(gt.hex_algo)
           sum(c) == ColumnSum(gt.mapping_matrix3d,
                               c[1] + gt.pad, c[2] + gt.pad)
       IN  /\ gt.pc = "truncate" => \A c \in cells : sum(c) = One
           /\ gt.pc = "truncated"
              => \A c \in cells :
                    sum(c) = Rat(RealShare(c), factor * factor)
           /\ gt.pc = "normalized"
              => \A c \in cells :
                    sum(c) = RMul(Rat(RealShare(c), factor * factor),
                                  Rat(gt.num_pixels * factor * factor,
                                      CounterSum([d \in cells |-> RealShare(d)],
                                                 cells)))

\* a rebinning table after the truncation with a cell whose block lies
\* partly on real pixels: its weights sum to less than 1 and more than 0
C13_Witness ==
    /\ gt.pc = "truncated" /\ gt.hex_algo = "rebinning"
    /\ \E c \in (0..(gt.output_dim - 1)) \X (0..(gt.output_dim - 1)) :
          /\ RealShare(c) \in 1..99
          /\ RLess(ColumnSum(gt.mapping_matrix3d, c[1] + gt.pad, c[2] + gt.pad),
                   One)

\* a build by bilinear or bicubic interpolation
Interpolation ==
    gt.hex_algo \in {"bilinear_interpolation", "bicubic_interpolation"}

\* the cells of the image of an interpolation
ImageCells == (0..(gt.output_dim - 1)) \X (0..(gt.output_dim - 1))

\* the point of the output grid of the cell c
Target(c) == gt.table_grid[c[1] * gt.output_dim + c[2] + 1]

\* the cell c, a square of the spacing of the output grid around its point,
\* lies within the convex hull of the real pixels of the camera of an
\* interpolation: the square of the camera, without the triangle at its last
\* corner where the pixel of that corner is missing
InsideHull(c) ==
    LET n == Len(Ticks(gt.pos, 1))
        s == gt.output_dim - 1
        span == n - 1 + 2 * gt.default_pad
        lo(k) == 2 * Target(c)[k] - span
        hi(k) == 2 * Target(c)[k] + span
    IN  /\ \A k \in 1..2 : lo(k) >= 0 /\ hi(k) <= 2 * (n - 1) * s
        /\ gt.num_pixels < n * n => hi(1) + hi(2) <= 2 * (2 * n - 3) * s

\* the source points nearer to the point of the cell c, on both axes, than
\* the distance of reach pixels
Sources(c, reach) ==
    LET s == gt.output_dim - 1
    IN  {i \in 0..(Len(gt.hex_grid) - 1) :
            \A k \in 1..2 :
               Abs(gt.hex_grid[i + 1][k] - Target(c)[k]) < reach * s}

\* the reach of the corner points of an interpolation with a weight
Reach == IF gt.hex_algo = "bicubic_interpolation" THEN 2 ELSE 1

\* the sum of the weights of the cell c of the image of an interpolation
CellSum(c) == ColumnSum(gt.mapping_matrix3d, c[1] + gt.pad, c[2] + gt.pad)

OutsideHull(c) ==
    LET n == Len(Ticks(gt.pos, 1))
        s == gt.output_dim - 1
        span == n - 1 + 2 * gt.default_pad
        lo(k) == 2 * Target(c)[k] - span
        hi(k) == 2 * Target(c)[k] + span
    IN  \/ \E k \in 1..2 : hi(k) < 0 \/ lo(k) > 2 * (n - 1) * s
        \/ gt.num_pixels < n * n /\ lo(1) + lo(2) > 2 * (2 * n - 3) * s

\* the cells of the image whose nearest source point is a virtual pixel
MaskedCells == {c \in ImageCells : gt.nn_index[c[1]][c[2]] >= gt.num_pixels}

\* C15, its first part as stated: with masking enabled, every output cell
\* of a bilinear or bicubic table outside the convex hull of the camera has
\* the weight 0 in every row.
C15_OutsideHullIsZero ==
    gt.pc = "masked" /\ gt.mask /\ Interpolation
    => \A c \in ImageCells :
          OutsideHull(c)
          => \A r \in 0..gt.num_pixels :
                At(gt.mapping_matrix3d, r, c[1] + gt.pad, c[2] + gt.pad) = Zero

\* C15 as the code has it: with masking enabled, the mask step of a bilinear
\* or bicubic build sets the weights of rows 1..num_pixels to 0 at exactly the
\* cells whose nearest source point is a virtual pixel and leaves every
\* other weight, those of row 0 included, as it is.  A cell outside the
\* convex hull whose nearest source point is a real pixel keeps its weights.
C15_MaskZeroesVirtualNearest ==
    [][gt.pc = "truncated" /\ gt.mask /\ Interpolation
       => \A c \in ImageCells : \A r \in 0..gt.num_pixels :
             At(gt'.mapping_matrix3d, r, c[1] + gt.pad, c[2] + gt.pad)
                = IF r >= 1 /\ c \in MaskedCells
                  THEN Zero
                  ELSE At(gt.mapping_matrix3d, r,
                          c[1] + gt.pad, c[2] + gt.pad)]_vars

\* a masked table with a cell outside the convex hull that kept a weight
\* and a cell inside it, nearest to a missing pixel, that holds none
C15_Witness ==
    /\ gt.pc = "masked" /\ gt.mask /\ Interpolation
    /\ \E c \in ImageCells \ MaskedCells :
          OutsideHull(c) /\ CellSum(c) # Zero
    /\ \E c \in MaskedCells :
          /\ ~OutsideHull(c) /\ CellSum(c) = Zero
          /\ \E i \in Sources(c, Reach) : i < gt.num_pixels

\* the weights of the rows of the real pixels that lie in the band of
\* default_pad cells at each side of the matrix, which lines 520-522 cut
BandWeights ==
    LET m == gt.mapping_matrix3d
        side == m.shape[2]
        kept == gt.default_pad..(side - gt.default_pad - 1)
    IN  [shape |-> m.shape,
         nz |-> [t \in {u \in DOMAIN m.nz :
                          u[1] >= 1 /\ ~(u[2] \in kept /\ u[3] \in kept)} |->
                    m.nz[t]]]

\* C16 as stated: in the final table of a rebinning, bilinear or bicubic
\* build, after the normalization and the trim of the padding, the weights
\* of rows 1..num_pixels sum over the whole raster to num_pixels.
C16_FinalTotalIsNumPixels ==
    gt.pc = "final" /\ ~NearestBuild
    => Total(gt.map_mat, 1, gt.num_pixels) = Rat(gt.num_pixels, 1)

\* C16 as the code has it: the normalization comes before the trim, so the
\* weights of rows 1..num_pixels sum to num_pixels over the padded raster,
\* and in the final table to num_pixels less the weights the trim cut with
\* the band of the padding: to num_pixels only where the band held no
\* weight of a real pixel.
C16_FinalTotalLacksBand ==
    gt.pc = "final" /\ ~NearestBuild
    => LET n == gt.num_pixels
           cut == Total(BandWeights, 1, n)
       IN  /\ Total(gt.mapping_matrix3d, 1, n) = Rat(n, 1)
           /\ Total(gt.map_mat, 1, n) = RSub(Rat(n, 1), cut)
           /\ ~RLess(cut, Zero)
           /\ Total(gt.map_mat, 1, n) = Rat(n, 1)
                  <=> DOMAIN BandWeights.nz = {}

\* a final table of an interpolation whose weights sum to less than
\* num_pixels, the band of the padding having held weights of real pixels
C16_Witness ==
    /\ gt.pc = "final" /\ ~NearestBuild
    /\ DOMAIN BandWeights.nz # {}
    /\ RLess(Total(gt.map_mat, 1, gt.num_pixels), Rat(gt.num_pixels, 1))

\* C17: the normalization divides every weight of rows 1..num_pixels by one
\* factor, the sum of those weights over num_pixels, so that they sum to
\* num_pixels right after the step, and leaves row 0 as it is; the step is
\* taken for rebinning, bilinear and bicubic interpolation and leaves the
\* matrix of oversampling and nearest interpolation as it is.
C17_NormalizationScalesToNumPixels ==
    [][gt.pc = "rotated"
       => LET m == gt.mapping_matrix3d
              after == gt'.mapping_matrix3d
              n == gt.num_pixels
              norm_factor == RDiv(Total(m, 1, n), Rat(n, 1))
          IN  IF NearestBuild
              THEN after = m
              ELSE /\ Total(after, 1, n) = Rat(n, 1)
                   /\ after.shape = m.shape
                   /\ DOMAIN after.nz = DOMAIN m.nz
                   /\ \A t \in DOMAIN m.nz :
                         after.nz[t] = IF t[1] = 0 THEN m.nz[t]
                                       ELSE RDiv(m.nz[t], norm_factor)]_vars

\* a normalized rebinning table: its weights sum to num_pixels and, being
\* no longer counts out of 100, show the division by a factor other than 1
C17_Witness ==
    /\ gt.pc = "normalized" /\ gt.hex_algo = "rebinning"
    /\ Total(gt.mapping_matrix3d, 1, gt.num_pixels) = Rat(gt.num_pixels, 1)
    /\ \E t \in DOMAIN gt.mapping_matrix3d.nz :
          100 % gt.mapping_matrix3d.nz[t][2] # 0

\* the factor of a pass of normalization over the tensor m
NormFactor(m) == RDiv(Total(m, 1, m.shape[1] - 1), Rat(gt.num_pixels, 1))

\* C18 as stated: for every weight tensor, the normalization of the
\* normalized tensor is the normalized tensor, the factor of the second pass
\* being 1.
C18_NormalizationIdempotent ==
    gt.pc = "twice"
    => gt.mapping_matrix3d = gt.once /\ NormFactor(gt.once) = One

\* C18 as the code has it: the normalization of the normalized tensor is
\* the normalized tensor, with a factor of 1 in the second pass, for every
\* tensor whose weights of rows 1.. have a sum other than 0.  Where that sum
\* is 0 the first pass divides by 0: every weight of those rows becomes nan
\* or infinite, and the factor of the second pass is nan.
C18_IdempotentForNonZeroSum ==
    gt.pc = "twice"
    => IF Total(gt.tensor, 1, gt.tensor.shape[1] - 1) # Zero
       THEN gt.mapping_matrix3d = gt.once /\ NormFactor(gt.once) = One
       ELSE /\ NormFactor(gt.once) = <<0, 0>>
            /\ \A t \in (1..2) \X {0} \X (0..(NormCells - 1)) :
                  At(gt.once, t[1], t[2], t[3])[2] = 0

\* a tensor that the first pass changed and the second did not
C18_Witness ==
    /\ gt.pc = "twice"
    /\ Total(gt.tensor, 1, gt.tensor.shape[1] - 1) # Zero
    /\ gt.once # gt.tensor
    /\ gt.mapping_matrix3d = gt.once

\* C19: for the four corners of a rectangle along the axes, in the order
\* lower left, upper left, lower right, upper right, get_weights returns
\* the bilinear weights: the areas of the opposite parts of the rectangle
\* over its area.  They sum to 1 for every target; a target on a corner
\* gives that corner the weight 1 and the others 0; the target at the centre
\* gives every corner 0.25.
C19_BilinearWeights ==
    gt.pc = "weights"
    => LET x1 == gt.p[1][1]
           y1 == gt.p[1][2]
           x2 == gt.p[4][1]
           y2 == gt.p[4][2]
           x == gt.target[1]
           y == gt.target[2]
           area == (x2 - x1) * (y2 - y1)
           w == gt.weights
       IN  /\ w = <<Rat((x2 - x) * (y2 - y), area), Rat((x2 - x) * (y - y1), area),
                    Rat((x - x1) * (y2 - y), area), Rat((x - x1) * (y - y1), area)>>
           /\ RSum(w, 1, 4) = One
           /\ \A k \in 1..4 :
                 gt.target = gt.p[k]
                 => \A l \in 1..4 : w[l] = IF l = k THEN One ELSE Zero
           /\ 2 * x = x1 + x2 /\ 2 * y = y1 + y2
              => \A l \in 1..4 : w[l] = <<1, 4>>

\* the weights of a target at the centre of a rectangle
C19_Witness ==
    /\ gt.pc = "weights"
    /\ 2 * gt.target[1] = gt.p[1][1] + gt.p[4][1]
    /\ 2 * gt.target[2] = gt.p[1][2] + gt.p[4][2]
    /\ gt.weights = <<<<1, 4>>, <<1, 4>>, <<1, 4>>, <<1, 4>>>>

\* the default padding the statement of C20 names
StatedPad(c) ==
    IF hex_conversion_algorithm[c] = "bicubic_interpolation" THEN 3 ELSE 2

\* the image shape of the camera type c is its raster with a band of the
\* given number of cells at each side
Banded(c, band) ==
    /\ image_shapes[c][1] = RasterSize(c)[1] + 2 * band
    /\ image_shapes[c][2] = RasterSize(c)[2] + 2 * band

\* generate_table has returned for the camera type of the turn
Generated == pc = "generate" /\ pc' \in {"read", "done"}

\* the image shape after generate_table is the one before it with the
\* external padding added and a band of the given cells cut at each side
Trimmed(c, band) ==
    /\ image_shapes'[c][1] = image_shapes[c][1] + 2 * padding[c] - 2 * band
    /\ image_shapes'[c][2] = image_shapes[c][2] + 2 * padding[c] - 2 * band

\* C20 as stated: the band of internal padding added at each side before
\* the table is generated, and trimmed afterwards, is 2 cells (3 for
\* bicubic), and twice that for the near-square camera types under
\* oversampling and for no other camera type and strategy.
C20_BandDoubledForSquare ==
    [][LET band == IF /\ hex_conversion_algorithm[camtype] = "oversampling"
                     /\ camtype \in SquareCameras
                  THEN 2 * StatedPad(camtype) ELSE StatedPad(camtype)
       IN  /\ pc = "generate" => Banded(camtype, band)
           /\ Generated => Trimmed(camtype, band)]_vars

\* C20 as the code has it: the band of internal padding added at each side
\* before the table is generated, and trimmed afterwards, is 2 cells (3 for
\* bicubic), and twice that under oversampling for the camera types that
\* are not near-square (every one but ASTRICam, CHEC and SCTCam) and for
\* no other camera type and strategy.
C20_BandDoubledForHexagonal ==
    [][LET band == IF /\ hex_conversion_algorithm[camtype] = "oversampling"
                     /\ camtype \notin SquareCameras
                  THEN 2 * StatedPad(camtype) ELSE StatedPad(camtype)
       IN  /\ pc = "generate"
              => default_pad = StatedPad(camtype) /\ Banded(camtype, band)
           /\ Generated => Trimmed(camtype, band)]_vars

\* a construction that built a table by oversampling for a hexagonal and
\* for a near-square camera type, about to build one by bicubic
\* interpolation with a band of 3 cells
C20_Witness ==
    /\ pc = "generate"
    /\ hex_conversion_algorithm[camtype] = "bicubic_interpolation"
    /\ Banded(camtype, 3)
    /\ \E c \in DOMAIN mapping_tables :
          hex_conversion_algorithm[c] = "oversampling"

\* the cells of internal padding at each side of the output grid of the
\* frame: default_pad, and twice that where lines 138-143 added it twice
InternalBand ==
    IF gt.hex_algo = "oversampling" /\ gt.camera_type \notin SquareCameras
    THEN 2 * gt.default_pad ELSE gt.default_pad

\* the side S of the image without its internal padding
ImageSide == gt.output_dim - 2 * InternalBand

\* the cells of the final raster and those of its outer band of pad cells
FinalCells == (0..(gt.map_mat.shape[2] - 1)) \X (0..(gt.map_mat.shape[3] - 1))

OuterBand ==
    {c \in FinalCells : \E k \in {1, 2} :
        c[k] < gt.pad \/ c[k] >= gt.pad + ImageSide}

\* the cell of the output grid a cell of the final raster was: lines 208-211
\* write the grid at the offset pad, lines 520-522 cut the band at the
\* offset 0 of the matrix
GridCell(c) == <<c[1] + InternalBand - gt.pad, c[2] + InternalBand - gt.pad>>

\* a cell of the output grid in its band of internal padding
InInternalBand(g) ==
    /\ g[1] \in 0..(gt.output_dim - 1) /\ g[2] \in 0..(gt.output_dim - 1)
    /\ \E k \in {1, 2} :
          g[k] < InternalBand \/ g[k] >= gt.output_dim - InternalBand

\* the rows of the final table
FinalRows == 0..(gt.map_mat.shape[1] - 1)

\* the final raster has the side S + 2 * pad and holds the image at the
\* offset pad
ImageKept ==
    /\ gt.map_mat.shape[2] = ImageSide + 2 * gt.pad
    /\ gt.map_mat.shape[3] = ImageSide + 2 * gt.pad
    /\ \A c \in FinalCells \ OuterBand : \A r \in FinalRows :
          /\ ~InInternalBand(GridCell(c))
          /\ At(gt.map_mat, r, c[1], c[2])
                = At(gt.mapping_matrix3d, r, GridCell(c)[1] + gt.pad,
                     GridCell(c)[2] + gt.pad)

Even(ticks, dist) ==
    \A k \in 1..(Len(ticks) - 1) : ticks[k + 1] - ticks[k] = dist

\* the axes of a frame of oversampling are padded
Padded == gt.pc = "padded" /\ gt.hex_algo = "oversampling"

\* C22 as stated: for the camera types of a hexagonal lattice under
\* oversampling and all numbers of ticks n_first <= n_second, the padded
\* list of the longer axis has twice the ticks of the padded list of the
\* shorter axis.
C22_SecondIsTwiceFirst ==
    Padded => /\ gt.n_first <= gt.n_second
              /\ Len(gt.second_ticks) = 2 * Len(gt.first_ticks)

\* C22 as the code has it: the loop of lines 756-758 only adds ticks, and
\* int(tick_diff/2) rounds towards zero, so the padded list of the longer
\* axis has twice the ticks of the other one exactly when n_second is at
\* most 2 * n_first, or exceeds it by an even number of at most
\* 4 * default_pad; by an odd excess of less than 4 * default_pad it has
\* two ticks more than that, and beyond that excess no tick is added.
C22_TwiceFirstUnlessSecondLonger ==
    Padded
    => LET excess == gt.n_second - 2 * gt.n_first
           t == PaddedTicks(gt.n_first, gt.n_second, gt.hex_algo,
                            gt.default_pad)
       IN  /\ gt.n_first <= gt.n_second
           /\ Len(gt.first_ticks) = gt.n_first + 2 * gt.default_pad
           /\ Len(gt.first_ticks) = t.first /\ Len(gt.second_ticks) = t.second
           /\ Even(gt.first_ticks, 1) /\ Even(gt.second_ticks, 1)
           /\ Len(gt.second_ticks) = 2 * Len(gt.first_ticks)
                 <=> \/ excess <= 0
                     \/ excess % 2 = 0 /\ excess <= 4 * gt.default_pad
           /\ excess > 0 /\ excess % 2 = 1 /\ excess < 4 * gt.default_pad
                 => Len(gt.second_ticks) = 2 * Len(gt.first_ticks) + 2
           /\ excess > 4 * gt.default_pad
                 => Len(gt.second_ticks) = gt.n_second + (excess % 2)

\* padded axes of a lattice with one tick more on the longer axis than
\* twice those of the shorter
C22_Witness ==
    /\ Padded
    /\ gt.n_second = 2 * gt.n_first + 1
    /\ Len(gt.second_ticks) = 2 * Len(gt.first_ticks) + 2

\* a build by bicubic interpolation before the truncation of line 507
Bicubic == gt.pc = "truncate" /\ gt.hex_algo = "bicubic_interpolation"

\* the cell (i, j) of the lattice of the source points that lines 381-386
\* select for the point of the cell c of the image
LatticeCell(c) ==
    <<Bisect(Ticks(gt.hex_grid, 1), Target(c)[1]),
      Bisect(Ticks(gt.hex_grid, 2), Target(c)[2])>>

\* the condition of line 340 on the cell of the lattice of the cell c
AtBorder(c) ==
    \/ LatticeCell(c)[1] = 0
    \/ LatticeCell(c)[2] = 0
    \/ LatticeCell(c)[1] >= Len(Ticks(gt.hex_grid, 1)) - 2
    \/ LatticeCell(c)[2] >= Len(Ticks(gt.hex_grid, 2)) - 2

\* the 16 points of the stencil of the cell c, square after square, each
\* with the weight of line 504
Stencil(c) ==
    LET squares == BiggerSquares(Ticks(gt.hex_grid, 1), Ticks(gt.hex_grid, 2),
                                 LatticeCell(c)[1], LatticeCell(c)[2])
    IN  <<>> \o [k \in 1..16 |->
            LET i == ((k - 1) \div 4) + 1
                l == ((k - 1) % 4) + 1
            IN  [point |-> squares[i][l],
                 weight |-> Quarter(get_weights(squares[i], Target(c))[l])]]

\* C23: in a bicubic interpolation for a camera type of SquareCameras, a
\* point of the output grid in a cell (i, j) of the lattice with i = 0,
\* j = 0, i >= len(x_ticks) - 2 or j >= len(y_ticks) - 2 has the weight 0
\* in every row; in every other cell the 16 weights of its stencil, the
\* four weights of each of the four squares divided by 4, are not negative
\* and sum to 1, and they are the weights of the rows of the 16 points in
\* the matrix before the truncation.
C23_BicubicStencil ==
    Bicubic
    => \A c \in ImageCells :
          LET m == gt.mapping_matrix3d
              y == c[1] + gt.pad
              x == c[2] + gt.pad
          IN  IF AtBorder(c)
              THEN \A r \in 0..(m.shape[1] - 1) : At(m, r, y, x) = Zero
              ELSE LET st == Stencil(c)
                   IN  /\ \A k \in 1..16 :
                             /\ ~RLess(st[k].weight, Zero)
                             /\ At(m, IndexOf(gt.hex_grid, st[k].point) + 1,
                                   y, x) = st[k].weight
                       /\ \A k \in 1..16 : \A n \in 1..16 :
                             st[k].point = st[n].point => k = n
                       /\ RSum([k \in 1..16 |-> st[k].weight], 1, 16) = One
                       /\ CellSum(c) = One

\* a matrix of a bicubic interpolation with a cell at the border of the
\* lattice, and one within it that has a weight from each of its four
\* squares
C23_Witness ==
    /\ Bicubic
    /\ \E c \in ImageCells : AtBorder(c) /\ CellSum(c) = Zero
    /\ \E c \in ImageCells :
          /\ ~AtBorder(c)
          /\ \A i \in 0..3 : \E l \in 1..4 :
                RLess(Zero, Stencil(c)[4 * i + l].weight)
          /\ CellSum(c) = One

\* the target of the frame lies within the first and the last tick of
\* both axes
WithinTicks ==
    /\ gt.x_ticks[1] <= gt.target[1]
    /\ gt.target[1] <= gt.x_ticks[Len(gt.x_ticks)]
    /\ gt.y_ticks[1] <= gt.target[2]
    /\ gt.target[2] <= gt.y_ticks[Len(gt.y_ticks)]

\* the rectangle of the corner points of the frame contains its target
InRectangle ==
    \A k \in 1..2 :
       /\ gt.corner_points[1][k] <= gt.target[k]
       /\ gt.target[k] <= gt.corner_points[4][k]

\* C24: in a bilinear interpolation for a camera type of SquareCameras,
\* for every point of the output grid within the first and the last tick
\* of both axes, on a tick or not, the rectangle of the corner points of
\* the cell that the bisection selects contains the point, and each of
\* its four weights lies in [0, 1].
C24_SelectedCellContainsTarget ==
    gt.pc = "selected" /\ WithinTicks
    => /\ InRectangle
       /\ \A l \in 1..4 :
             ~RLess(gt.weights[l], Zero) /\ ~RLess(One, gt.weights[l])
       /\ RSum(gt.weights, 1, 4) = One

\* a target on the last tick of one axis and on the first of the other,
\* between three ticks or more, with its corner points and weights
C24_Witness ==
    /\ gt.pc = "selected"
    /\ Len(gt.x_ticks) >= 3 /\ Len(gt.y_ticks) >= 3
    /\ gt.target[1] = gt.x_ticks[Len(gt.x_ticks)]
    /\ gt.target[2] = gt.y_ticks[1]
    /\ InRectangle
    /\ gt.weights = <<Zero, Zero, One, Zero>>

\* no two adjacent ticks of the list differ by 0.002 or less, and every
\* coordinate is one of the ticks
Smoothed(ticks, v) ==
    /\ \A k \in 1..(Len(ticks) - 1) : ticks[k + 1] - ticks[k] > 2
    /\ \A k \in DOMAIN v : v[k] \in Range(ticks)

\* three original coordinates or more form a chain of near-duplicates
Chain(v) ==
    \E a \in Range(v) : \E b \in Range(v) : \E c \in Range(v) :
       /\ a < b /\ b < c
       /\ \A d \in Range(v) : ~(a < d /\ d < b) /\ ~(b < d /\ d < c)
       /\ b - a <= 2 /\ c - b <= 2

\* C25: after the smoothing of the ticks of CHEC, on each axis no two
\* adjacent remaining ticks differ by 0.002 or less and every coordinate of
\* a pixel on that axis is one of the remaining ticks (the last tick of the
\* chain of near-duplicates of its original value), also where three
\* original ticks or more form a chain of near-duplicates.
C25_SmoothedTicks ==
    gt.pc = "smoothed"
    => /\ Smoothed(gt.x_ticks, gt.x) /\ Smoothed(gt.y_ticks, gt.y)
       /\ Range(gt.x_ticks) = Range(gt.x) /\ Range(gt.y_ticks) = Range(gt.y)
       /\ \A k \in 1..SmoothPixels :
             /\ gt.x[k] >= gt.pos[1][k] /\ gt.y[k] >= gt.pos[2][k]
             /\ gt.x[k] \in Range(gt.pos[1]) /\ gt.y[k] \in Range(gt.pos[2])

\* smoothed ticks of a camera whose coordinates on the first axis formed a
\* chain of three near-duplicates, now all on one tick, and whose
\* coordinates on the second axis keep two ticks
C25_Witness ==
    /\ gt.pc = "smoothed"
    /\ Chain(gt.pos[1])
    /\ Len(gt.x_ticks) = 1 /\ Cardinality(Range(gt.pos[1])) = 3
    /\ Len(gt.y_ticks) = 2

====
